---- MODULE Spec2Model ----
(***************************************************************************)
(* Model of StreamEx (src/StreamEx.h, src/StreamEx.cpp): the TX and RX     *)
(* sliding-window byte buffers of one StreamEx object, the latched         *)
(* errorCode, and the public buffer operations.                            *)
(*                                                                         *)
(* A buffer is a record                                                    *)
(*   isnull : the base pointer (_txBuffer / _rxBuffer) is nullptr          *)
(*   size   : _txBufferSize / _rxBufferSize                                *)
(*   buf    : the bytes of the caller-owned storage, buf[i+1] is the C     *)
(*            byte at index i (empty when the pointer is null)             *)
(*   pos    : _txPosition / _rxPosition                                    *)
(* The code of the two directions is duplicated line by line in the        *)
(* source; the operators below are written once over such a record and     *)
(* applied to tx by the Tx actions and to rx by the Rx actions.            *)
(*                                                                         *)
(* The string codec of namespace StreamEx_utility (validators, converters, *)
(* checkValueType, stringToNumber) is modelled as operators over C         *)
(* strings, a record [null, chars]; conv records the last codec call.      *)
(* Values of 64-bit width are kept as decimal digit strings.               *)
(*                                                                         *)
(* fifo is the account of a producer and a consumer of one RX buffer,      *)
(* kept by the actions of SpecFifo and left alone by all others.           *)
(***************************************************************************)
EXTENDS Integers, Sequences, FiniteSets, TLC

VARIABLES tx, rx, errorCode, last, conv, fifo

vars == <<tx, rx, errorCode, last, conv, fifo>>

\* ---------------------------------------------------------------- bounds
MaxCap  == 3      \* largest storage size of the direction under study
SideCap == 1      \* largest storage size of the other direction
MaxData == 3      \* longest data run / largest size argument of a call
MaxByte == 2      \* data bytes are drawn from 1..MaxByte
MaxText == 3      \* longest text drawn freely from TextChars
ZeroPad == 2      \* most leading zeros put before a numeral
MaxOut  == 24     \* largest outCap given to dataValueToString
MaxTrim == 4      \* largest maxSize given to trimString
MaxSent == 6      \* most bytes appended in one behaviour of the FIFO study

\* ---------------------------------------------------------------- basics
NUL == 0

Bytes == 1..MaxByte
Data  == UNION {[1..k -> Bytes] : k \in 0..MaxData}
Sizes == 0..MaxData

Min(a, b) == IF a < b THEN a ELSE b
Max(a, b) == IF a > b THEN a ELSE b

\* min<uint32_t>(n, x) for a uint32_t n and a difference x of uint32_t values
\* with x > -2^32: a negative x wraps to x + 2^32.  The differences the code
\* forms are >= -1, and -1 wraps to 0xFFFFFFFF, which no uint32_t n exceeds.
MinU32(n, x) == IF x < 0 THEN n ELSE Min(n, x)

StreamExError == {"None", "NullData", "BufferOverflow", "SizeZero", "NotEnoughData"}

\* The logical content of a buffer: the first pos bytes of its storage.
Content(b) == SubSeq(b.buf, 1, Min(b.pos, Len(b.buf)))

\* Last k elements of a sequence (the whole sequence when it is shorter).
LastK(s, k) == IF Len(s) <= k THEN s ELSE SubSeq(s, Len(s) - k + 1, Len(s))

\* ---------------------------------------------------------------- memory
\* memset(buf, 0, size)
MemZero(size) == [i \in 1..size |-> NUL]

\* A store that writes nothing.
StoreNothing(mem, idx, byte) == mem

\* buf[idx] = byte.  A store at an index outside the storage lands outside
\* the modelled bytes; it is reported through the access bound (hi).
Store(mem, idx, byte) ==
    IF idx < Len(mem) THEN [mem EXCEPT ![idx + 1] = byte] ELSE mem

\* memcpy(buf + off, data, cnt)
MemCpy(mem, off, data, cnt) ==
    [i \in 1..Len(mem) |->
        IF i > off /\ i <= off + cnt THEN data[i - off] ELSE mem[i]]

\* A compaction that moves nothing.
MemMoveNone(mem, n, cnt) == mem

\* memmove(buf, buf + n, cnt)
MemMove(mem, n, cnt) ==
    [i \in 1..Len(mem) |->
        IF i <= cnt /\ i + n <= Len(mem) THEN mem[i + n] ELSE mem[i]]

\* A buffer as the constructor / set*Buffer leaves it.
Bound(isnull, size) ==
    [isnull |-> isnull, size |-> size,
     buf |-> IF isnull THEN << >> ELSE MemZero(size), pos |-> 0]

\* The result of one call: the buffer and errorCode afterwards, what the
\* call returned (ret for bool, val for int / size_t), what it copied out,
\* how many bytes it evicted and copied in, the exclusive upper bound of the
\* storage indices it touched (hi, 0 when it touched none) and whether it
\* dereferenced a null storage pointer.
Res(b, err, ret, val, out, dropped, copied, hi, nullderef) ==
    [b |-> b, err |-> err, ret |-> ret, val |-> val, out |-> out,
     dropped |-> dropped, copied |-> copied, hi |-> hi, nullderef |-> nullderef]


\* ------------------------------------------------------- internal helper
\* StreamEx::_dropFrontTx / _dropFrontRx: drop n bytes from the front and
\* compact.  Returns the buffer and the access bound.
DropFrontNoMove(b, n) ==
    IF b.isnull \/ b.pos = 0 \/ n = 0 THEN [b |-> b, hi |-> 0]
    ELSE IF n >= b.pos
         THEN [b |-> [b EXCEPT !.pos = 0, !.buf = Store(b.buf, 0, NUL)], hi |-> 1]
         ELSE [b |-> [b EXCEPT !.pos = b.pos - n,
                               !.buf = Store(b.buf, b.pos - n, NUL)],
               hi |-> b.pos - n + 1]

DropFront(b, n) ==
    IF b.isnull \/ b.pos = 0 \/ n = 0 THEN [b |-> b, hi |-> 0]
    ELSE IF n >= b.pos
         THEN [b |-> [b EXCEPT !.pos = 0, !.buf = Store(b.buf, 0, NUL)], hi |-> 1]
         ELSE [b |-> [b EXCEPT !.pos = b.pos - n,
                               !.buf = Store(MemMove(b.buf, n, b.pos - n),
                                             b.pos - n, NUL)],
               hi |-> b.pos]

\* ------------------------------------------------------------ operations
\* setTxBuffer / setRxBuffer (and the constructor): errorCode is untouched.
SetBuffer(isnull, size, err) ==
    Res(Bound(isnull, size), err, TRUE, 0, << >>, 0, 0,
        IF ~isnull /\ size > 0 THEN size ELSE 0, FALSE)

\* A clear that resets the position and leaves the bytes.
ClearBufferKeepBytes(b, err) ==
    Res([b EXCEPT !.pos = 0], err, TRUE, 0, << >>, 0, 0, 0, FALSE)

\* clearTxBuffer / clearRxBuffer
ClearBuffer(b, err) ==
    Res([b EXCEPT !.pos = 0,
                  !.buf = IF ~b.isnull /\ b.size > 0 THEN MemZero(b.size) ELSE b.buf],
        err, TRUE, 0, << >>, 0, 0,
        IF ~b.isnull /\ b.size > 0 THEN b.size ELSE 0, FALSE)

\* A size check that lets one byte more than the storage through.
WriteTooBigByOne(size, n) == n > size + 1

\* The size check of writeTxBuffer / writeRxBuffer: dataSize > _txBufferSize.
WriteTooBig(size, n) == n > size

\* writeTxBuffer / writeRxBuffer: overwrite the whole content.  data is a
\* non-null run of n bytes (the documented precondition when n > 0).
\* memcpy is given the storage pointer before the pointer is tested: on a
\* null storage a copy of n > 0 bytes goes through the null pointer, and a
\* copy of 0 bytes is undefined; the build then either does nothing or,
\* having dropped the null test, stores the terminator through the null
\* pointer when the size is not 0 (nullstore).
WriteBuffer(b, data, n, err, nullstore) ==
    IF WriteTooBig(b.size, n)
    THEN Res(b, "BufferOverflow", FALSE, 0, << >>, 0, 0, 0, FALSE)
    ELSE LET copied == IF b.isnull THEN b.buf ELSE MemCpy(b.buf, 0, data, n)
             term   == IF n < b.size THEN n ELSE b.size - 1
             mem    == IF ~b.isnull /\ b.size > 0
                       THEN Store(copied, term, NUL) ELSE copied
         IN  Res([b EXCEPT !.pos = n, !.buf = mem], err, TRUE, 0, << >>, 0, n,
                 Max(n, IF ~b.isnull /\ b.size > 0 THEN term + 1 ELSE 0),
                 b.isnull /\ (n > 0 \/ (b.size > 0 /\ nullstore)))

\* freeCap of pushBackTxBuffer / pushBackRxBuffer
FreeCapNoReserve(b) == IF b.size > b.pos THEN b.size - b.pos ELSE 0

FreeCap(b) == IF b.size > b.pos THEN b.size - b.pos - 1 ELSE 0

\* canCopy of pushBackTxBuffer / pushBackRxBuffer (uint32_t arithmetic)
CanCopyNoReserve(b, n) == MinU32(n, b.size - b.pos)

CanCopy(b, n) == MinU32(n, b.size - b.pos - 1)

\* An append that advances the position without copying the bytes.
TailCopyNone(mem, off, data, cnt) == mem

\* The bytes pushBack copies behind the content: memcpy(buf + pos, data, cnt)
\* takes the first cnt bytes of data.
TailCopy(mem, off, data, cnt) == MemCpy(mem, off, data, cnt)

\* The return value of pushBackTxBuffer / pushBackRxBuffer: canCopy == dataSize.
PushRetNoDrop(canCopy, n, over) == canCopy = n /\ ~over

PushRet(canCopy, n, over) == canCopy = n

\* pushBackTxBuffer / pushBackRxBuffer: append with sliding-window eviction.
\* datanull: the data pointer is null; otherwise data is a run of n bytes.
PushBack(b, datanull, data, n, err) ==
    IF datanull THEN Res(b, "NullData", FALSE, 0, << >>, 0, 0, 0, FALSE)
    ELSE IF b.isnull \/ b.size = 0
    THEN Res(b, "BufferOverflow", FALSE, 0, << >>, 0, 0, 0, FALSE)
    ELSE LET freeCap == FreeCap(b)
             over    == n > freeCap
             d       == IF over THEN DropFront(b, n - freeCap)
                                ELSE [b |-> b, hi |-> 0]
             canCopy == CanCopy(d.b, n)
             np      == d.b.pos + canCopy
             b2      == IF canCopy # 0
                        THEN [d.b EXCEPT !.pos = np,
                                 !.buf = Store(TailCopy(d.b.buf, d.b.pos, data, canCopy),
                                               np, NUL)]
                        ELSE d.b
         IN  Res(b2, IF over THEN "BufferOverflow" ELSE err,
                 PushRet(canCopy, n, over), 0, << >>,
                 b.pos - d.b.pos, canCopy,
                 IF canCopy # 0 THEN Max(d.hi, np + 1) ELSE d.hi, FALSE)

\* The return value of popFrontTxBuffer / popFrontRxBuffer: the latched
\* errorCode is compared, whoever set it.
PopRet(err, clamped) == err # "NotEnoughData"

\* popFront whose clamp shortens the request but latches nothing.
PopFrontNoLatch(b, dstnull, n, err, garbage) ==
    IF dstnull THEN Res(b, "NullData", FALSE, 0, << >>, 0, 0, 0, FALSE)
    ELSE IF n = 0 THEN Res(b, "SizeZero", FALSE, 0, << >>, 0, 0, 0, FALSE)
    ELSE LET n1 == IF n > b.pos THEN b.pos ELSE n
             d  == DropFront(b, n1)
         IN  IF n1 = 0
             THEN Res(b, err, FALSE, 0, <<NUL>>, 0, 0, 0, FALSE)
             ELSE Res(d.b, err, PopRet(err, n > b.pos), 0,
                      IF b.isnull THEN SubSeq(garbage, 1, n1) ELSE SubSeq(b.buf, 1, n1),
                      b.pos - d.b.pos, 0, Max(n1, d.hi), b.isnull)

\* popFrontTxBuffer / popFrontRxBuffer (char* overloads).  dstnull: the
\* destination pointer is null.  garbage: what a read through a null storage
\* pointer yields.
PopFront(b, dstnull, n, err, garbage) ==
    IF dstnull THEN Res(b, "NullData", FALSE, 0, << >>, 0, 0, 0, FALSE)
    ELSE IF n = 0 THEN Res(b, "SizeZero", FALSE, 0, << >>, 0, 0, 0, FALSE)
    ELSE LET clamped == n > b.pos
             n1      == IF clamped THEN b.pos ELSE n
             err1    == IF clamped THEN "NotEnoughData" ELSE err
             d       == DropFront(b, n1)
         IN  IF n1 = 0
             THEN Res(b, err1, FALSE, 0, <<NUL>>, 0, 0, 0, FALSE)
             ELSE Res(d.b, err1, PopRet(err1, clamped), 0,
                      IF b.isnull THEN SubSeq(garbage, 1, n1) ELSE SubSeq(b.buf, 1, n1),
                      b.pos - d.b.pos, 0, Max(n1, d.hi), b.isnull)

\* popAll without the check of maxSize == 0.
PopAllNoSizeCheck(b, dstnull, maxSize, err, garbage) ==
    IF dstnull THEN Res(b, "NullData", FALSE, 0, << >>, 0, 0, 0, FALSE)
    ELSE LET take == Min(b.pos, maxSize)
             d    == DropFront(b, take)
         IN  Res(d.b, err, take = maxSize \/ d.b.pos = 0, 0,
                 IF b.isnull THEN SubSeq(garbage, 1, take) ELSE SubSeq(b.buf, 1, take),
                 b.pos - d.b.pos, 0, Max(take, d.hi), b.isnull /\ take > 0)

\* popAllTxBuffer / popAllRxBuffer (char* overloads)
PopAll(b, dstnull, maxSize, err, garbage) ==
    IF dstnull THEN Res(b, "NullData", FALSE, 0, << >>, 0, 0, 0, FALSE)
    ELSE IF maxSize = 0 THEN Res(b, "SizeZero", FALSE, 0, << >>, 0, 0, 0, FALSE)
    ELSE LET take == Min(b.pos, maxSize)
             d    == DropFront(b, take)
         IN  Res(d.b, err, take = maxSize \/ d.b.pos = 0, 0,
                 IF b.isnull THEN SubSeq(garbage, 1, take) ELSE SubSeq(b.buf, 1, take),
                 b.pos - d.b.pos, 0, Max(take, d.hi), b.isnull /\ take > 0)

\* A removeFront that refuses without latching NotEnoughData.
RemoveFrontSilent(b, n, err) ==
    IF n > b.pos THEN Res(b, err, FALSE, 0, << >>, 0, 0, 0, FALSE)
    ELSE LET np == b.pos - n
         IN  Res([b EXCEPT !.pos = np,
                           !.buf = Store(MemMove(b.buf, n, np), np, NUL)],
                 err, TRUE, 0, << >>, n, 0,
                 Max(IF np > 0 THEN b.pos ELSE 0, np + 1), b.isnull)

\* removeFrontTxBuffer / removeFrontRxBuffer
RemoveFront(b, n, err) ==
    IF n > b.pos THEN Res(b, "NotEnoughData", FALSE, 0, << >>, 0, 0, 0, FALSE)
    ELSE LET np == b.pos - n
         IN  Res([b EXCEPT !.pos = np,
                           !.buf = Store(MemMove(b.buf, n, np), np, NUL)],
                 err, TRUE, 0, << >>, n, 0,
                 Max(IF np > 0 THEN b.pos ELSE 0, np + 1), b.isnull)


\* read(): -1 when RX is empty or unbound, else the front byte, removed.
Read(b, err) ==
    IF b.pos = 0 \/ b.isnull
    THEN Res(b, err, FALSE, -1, << >>, 0, 0, 0, FALSE)
    ELSE LET d == DropFront(b, 1)
         IN  Res(d.b, err, TRUE, b.buf[1], << >>, b.pos - d.b.pos, 0,
                 Max(1, d.hi), FALSE)

\* peek(): -1 when RX is empty or unbound, else the front byte.
Peek(b, err) ==
    IF b.pos = 0 \/ b.isnull
    THEN Res(b, err, FALSE, -1, << >>, 0, 0, 0, FALSE)
    ELSE Res(b, err, TRUE, b.buf[1], << >>, 0, 0, 1, FALSE)

\* write(const uint8_t*, size_t): append to TX, return the count.
Write(b, datanull, data, n, err) ==
    IF datanull \/ n = 0
    THEN Res(b, "SizeZero", FALSE, 0, << >>, 0, 0, 0, FALSE)
    ELSE LET r == PushBack(b, FALSE, data, n, err)
         IN  [r EXCEPT !.val = IF r.ret THEN n ELSE r.b.pos]

\* ---------------------------------------------------------------- codec
\* StreamEx_utility: the text validators and converters.  A C string is a
\* record: null (the pointer is nullptr) and chars, the characters before
\* the terminating NUL, each a one-character string.
NullStr == [null |-> TRUE, chars |-> << >>]

CStr(chars) == [null |-> FALSE, chars |-> chars]

DigitChars == <<"0", "1", "2", "3", "4", "5", "6", "7", "8", "9">>

Digit == {DigitChars[i] : i \in 1..10}

\* c >= '0' && c <= '9'
IsDigit(c) == c \in Digit

\* The value of a decimal digit.
DigitVal(c) == (CHOOSE i \in 1..10 : DigitChars[i] = c) - 1

\* The vertical tab, character 11 ('\v' in C).
VTab == ""

\* isspace() in the C locale.
IsSpace(c) == c \in {" ", "\t", "\n", "\r", "\f", VTab}

UpperChars == <<"A", "B", "C", "D", "E", "F", "G", "H", "I", "J", "K", "L", "M",
                "N", "O", "P", "Q", "R", "S", "T", "U", "V", "W", "X", "Y", "Z">>

LowerChars == <<"a", "b", "c", "d", "e", "f", "g", "h", "i", "j", "k", "l", "m",
                "n", "o", "p", "q", "r", "s", "t", "u", "v", "w", "x", "y", "z">>

\* tolow: (char)tolower((unsigned char)c)
tolowKeep(c) == c

tolow(c) ==
    IF \E i \in 1..26 : UpperChars[i] = c
    THEN LowerChars[CHOOSE i \in 1..26 : UpperChars[i] = c]
    ELSE c

\* iequal: the loop runs while both strings have a character left and
\* compares them lowered; equal iff both end together.
RECURSIVE iequalFrom(_, _, _)
iequalFrom(a, b, i) ==
    IF i <= Len(a) /\ i <= Len(b)
    THEN IF tolow(a[i]) # tolow(b[i]) THEN FALSE ELSE iequalFrom(a, b, i + 1)
    ELSE i > Len(a) /\ i > Len(b)

iequal(a, b) == IF a.null \/ b.null THEN FALSE ELSE iequalFrom(a.chars, b.chars, 1)

\* The index of the first character behind an optional leading sign.
AfterSign(cs) == IF Len(cs) >= 1 /\ cs[1] \in {"+", "-"} THEN 2 ELSE 1

\* The loop of isNumber from index i: digit and dot are its two flags.
RECURSIVE NumberScan(_, _, _, _)
NumberScan(cs, i, digit, dot) ==
    IF i > Len(cs) THEN digit
    ELSE IF IsDigit(cs[i]) THEN NumberScan(cs, i + 1, TRUE, dot)
    ELSE IF cs[i] = "." /\ ~dot THEN NumberScan(cs, i + 1, digit, TRUE)
    ELSE FALSE

isNumber(s) ==
    IF s.null \/ Len(s.chars) = 0 THEN FALSE
    ELSE NumberScan(s.chars, AfterSign(s.chars), FALSE, FALSE)

\* The loop of isInteger / isUInteger from index i: every character a digit.
RECURSIVE DigitScan(_, _)
DigitScan(cs, i) ==
    IF i > Len(cs) THEN TRUE
    ELSE IF ~IsDigit(cs[i]) THEN FALSE
    ELSE DigitScan(cs, i + 1)

isIntegerAllowsBareSign(s) ==
    IF s.null \/ Len(s.chars) = 0 THEN FALSE
    ELSE DigitScan(s.chars, AfterSign(s.chars))

isInteger(s) ==
    IF s.null \/ Len(s.chars) = 0 THEN FALSE
    ELSE LET i == AfterSign(s.chars)
         IN  IF i > Len(s.chars) THEN FALSE ELSE DigitScan(s.chars, i)

isUInteger(s) ==
    IF s.null \/ Len(s.chars) = 0 \/ s.chars[1] = "-" THEN FALSE
    ELSE LET i == IF s.chars[1] = "+" THEN 2 ELSE 1
         IN  IF i > Len(s.chars) THEN FALSE ELSE DigitScan(s.chars, i)

\* isBoolean: "0", "1", or iequal to "true" / "false".
isBoolean(s) ==
    IF s.null THEN FALSE
    ELSE IF s.chars = <<"0">> \/ s.chars = <<"1">> THEN TRUE
    ELSE \/ iequal(s, CStr(<<"t", "r", "u", "e">>))
         \/ iequal(s, CStr(<<"f", "a", "l", "s", "e">>))

\* --------------------------------------------------- decimal arithmetic
\* Values of up to 64 bits are kept as decimal digit strings, most
\* significant digit first, without leading zeros ("0" for zero).
RECURSIVE Canon(_)
Canon(ds) ==
    IF Len(ds) = 0 THEN <<"0">>
    ELSE IF Len(ds) > 1 /\ ds[1] = "0" THEN Canon(Tail(ds))
    ELSE ds

\* a < b, lexicographically, for digit strings of the same length.
RECURSIVE LexLess(_, _, _)
LexLess(a, b, i) ==
    IF i > Len(a) THEN FALSE
    ELSE IF DigitVal(a[i]) # DigitVal(b[i]) THEN DigitVal(a[i]) < DigitVal(b[i])
    ELSE LexLess(a, b, i + 1)

\* a < b and a <= b for canonical digit strings.
DecLess(a, b) ==
    \/ Len(a) < Len(b)
    \/ Len(a) = Len(b) /\ LexLess(a, b, 1)

DecLeq(a, b) == a = b \/ DecLess(a, b)

\* a - b for digit strings with a >= b: schoolbook subtraction from the
\* least significant digit, i counting digits from the right, with borrow.
RECURSIVE SubDigits(_, _, _, _)
SubDigits(a, b, i, borrow) ==
    IF i > Len(a) THEN << >>
    ELSE LET x == DigitVal(a[Len(a) - i + 1])
             y == (IF i <= Len(b) THEN DigitVal(b[Len(b) - i + 1]) ELSE 0) + borrow
             d == IF x >= y THEN x - y ELSE x + 10 - y
         IN  Append(SubDigits(a, b, i + 1, IF x >= y THEN 0 ELSE 1),
                    DigitChars[d + 1])

DecSub(a, b) == Canon(SubDigits(a, b, 1, 0))

\* ---------------------------------------------------------- C library
\* The widths of unsigned long the builds of the library have: 32 bits
\* (AVR, ARM, ESP32) and 64 bits (LP64 hosts).  long long is 64 bits.
ULongBits == {32, 64}

\* 2^32 - 1, 2^32, 2^64 - 1, 2^64, 2^63 - 1, 2^63
UInt32Max == <<"4", "2", "9", "4", "9", "6", "7", "2", "9", "5">>
Pow2_32   == <<"4", "2", "9", "4", "9", "6", "7", "2", "9", "6">>
UInt64Max == <<"1", "8", "4", "4", "6", "7", "4", "4", "0", "7", "3", "7", "0", "9", "5", "5", "1", "6", "1", "5">>
Pow2_64   == <<"1", "8", "4", "4", "6", "7", "4", "4", "0", "7", "3", "7", "0", "9", "5", "5", "1", "6", "1", "6">>
Int64Max  == <<"9", "2", "2", "3", "3", "7", "2", "0", "3", "6", "8", "5", "4", "7", "7", "5", "8", "0", "7">>
Pow2_63   == <<"9", "2", "2", "3", "3", "7", "2", "0", "3", "6", "8", "5", "4", "7", "7", "5", "8", "0", "8">>

ULongMax(bits) == IF bits = 32 THEN UInt32Max ELSE UInt64Max

\* The subject sequence strtoul / strtoull / strtoll take from a string in
\* base 10: leading isspace() characters, an optional sign, decimal digits.
\* any: at least one digit was found (else no conversion is made and the end
\* pointer is the start of the string); end: the number of characters up to
\* the end pointer; neg: a '-' sign; mag: the digits, canonical.
RECURSIVE SkipSpace(_, _)
SkipSpace(cs, i) ==
    IF i <= Len(cs) /\ IsSpace(cs[i]) THEN SkipSpace(cs, i + 1) ELSE i

RECURSIVE DigitRunEnd(_, _)
DigitRunEnd(cs, i) ==
    IF i <= Len(cs) /\ IsDigit(cs[i]) THEN DigitRunEnd(cs, i + 1) ELSE i

Subject(cs) ==
    LET i == SkipSpace(cs, 1)
        j == IF i <= Len(cs) /\ cs[i] \in {"+", "-"} THEN i + 1 ELSE i
        k == DigitRunEnd(cs, j)
    IN  IF k = j
        THEN [any |-> FALSE, end |-> 0, neg |-> FALSE, mag |-> <<"0">>]
        ELSE [any |-> TRUE, end |-> k - 1,
              neg |-> i <= Len(cs) /\ cs[i] = "-",
              mag |-> Canon(SubSeq(cs, j, k - 1))]

\* e && *e == '\0' after a strto* call on the characters cs.
AtEnd(p, cs) == p.end = Len(cs)

\* The value an unsigned strto* call returns, for a type whose maximum is
\* max and whose modulus is max + 1 = pow: the maximum when the digits
\* exceed it, the negation modulo pow for a '-' sign.
UnsignedValue(p, max, pow) ==
    IF DecLess(max, p.mag) THEN max
    ELSE IF p.neg /\ p.mag # <<"0">> THEN DecSub(pow, p.mag)
    ELSE p.mag

\* strtoul(s, &e, 10) on a build with unsigned long of the given width.
strtoul(cs, bits) ==
    LET p == Subject(cs)
    IN  [p EXCEPT !.mag = UnsignedValue(p, ULongMax(bits),
                                        IF bits = 32 THEN Pow2_32 ELSE Pow2_64),
                  !.neg = FALSE]

\* strtoull(s, &e, 10)
strtoull(cs) ==
    LET p == Subject(cs)
    IN  [p EXCEPT !.mag = UnsignedValue(p, UInt64Max, Pow2_64), !.neg = FALSE]

\* strtoll(s, &e, 10): LLONG_MIN / LLONG_MAX when the digits are out of range.
strtoll(cs) ==
    LET p   == Subject(cs)
        neg == p.neg /\ p.mag # <<"0">>
    IN  [p EXCEPT !.neg = neg,
                  !.mag = IF neg THEN (IF DecLess(Pow2_63, p.mag) THEN Pow2_63 ELSE p.mag)
                          ELSE (IF DecLess(Int64Max, p.mag) THEN Int64Max ELSE p.mag)]

\* A range check that lets every value through.
UFitsAll(v, max) == TRUE

\* v <= max for an unsigned value; min <= v <= max for a signed value, min
\* given by its magnitude.
UFits(v, max) == DecLeq(v.mag, max)

SFits(v, minmag, max) ==
    IF v.neg THEN DecLeq(v.mag, minmag) ELSE DecLeq(v.mag, max)

\* a mod m for canonical digit strings, by long division.
RECURSIVE Reduce(_, _)
Reduce(r, m) == IF DecLess(r, m) THEN r ELSE Reduce(DecSub(r, m), m)

RECURSIVE ModFrom(_, _, _, _)
ModFrom(ds, i, r, m) ==
    IF i > Len(ds) THEN r
    ELSE ModFrom(ds, i + 1, Reduce(Canon(Append(r, ds[i])), m), m)

DecMod(a, m) == ModFrom(a, 1, <<"0">>, m)

\* cs has the word w at index i, compared case-insensitively.
HasWord(cs, i, w) ==
    /\ i + Len(w) - 1 <= Len(cs)
    /\ \A k \in 1..Len(w) : tolow(cs[i + k - 1]) = w[k]

IsHexDigit(c) ==
    IsDigit(c) \/ c \in {"a", "b", "c", "d", "e", "f", "A", "B", "C", "D", "E", "F"}

\* A character of the n-char-sequence of "nan(...)": digit, letter, '_'.
IsNChar(c) ==
    \/ IsDigit(c)
    \/ c = "_"
    \/ \E i \in 1..26 : c \in {UpperChars[i], LowerChars[i]}

RECURSIVE HexRunEnd(_, _)
HexRunEnd(cs, i) ==
    IF i <= Len(cs) /\ IsHexDigit(cs[i]) THEN HexRunEnd(cs, i + 1) ELSE i

RECURSIVE NCharRunEnd(_, _)
NCharRunEnd(cs, i) ==
    IF i <= Len(cs) /\ IsNChar(cs[i]) THEN NCharRunEnd(cs, i + 1) ELSE i

\* The end of a mantissa that starts at index j: a run of digits (decimal,
\* or hexadecimal with hex), at most one '.', a second run; digits is the
\* number of digits in the two runs, end the index of the last character.
Mantissa(cs, j, hex) ==
    LET k   == IF hex THEN HexRunEnd(cs, j) ELSE DigitRunEnd(cs, j)
        dot == k <= Len(cs) /\ cs[k] = "."
        m   == IF ~dot THEN k
               ELSE IF hex THEN HexRunEnd(cs, k + 1) ELSE DigitRunEnd(cs, k + 1)
    IN  [digits |-> (k - j) + (IF dot THEN m - (k + 1) ELSE 0), end |-> m - 1]

\* The end of the number behind a mantissa that ends at index e: an
\* exponent, marked by one of the letters in marks, with an optional sign
\* and at least one decimal digit, is part of it.
WithExponent(cs, e, marks) ==
    LET x == IF e + 2 <= Len(cs) /\ cs[e + 2] \in {"+", "-"} THEN e + 3 ELSE e + 2
        y == DigitRunEnd(cs, x)
    IN  IF e + 1 <= Len(cs) /\ cs[e + 1] \in marks /\ y > x THEN y - 1 ELSE e

\* The number of characters strtof / strtod convert (0: no conversion):
\* leading isspace() characters, an optional sign, then INF / INFINITY,
\* NAN or NAN(n-char-sequence), a hexadecimal number 0x h.h [p[sign]d], or
\* a decimal number d.d [e[sign]d]; a number needs at least one digit.
StrtodEnd(cs) ==
    LET i   == SkipSpace(cs, 1)
        j   == IF i <= Len(cs) /\ cs[i] \in {"+", "-"} THEN i + 1 ELSE i
        dec == Mantissa(cs, j, FALSE)
        hex == Mantissa(cs, j + 2, TRUE)
        n   == NCharRunEnd(cs, j + 4)
    IN  IF HasWord(cs, j, <<"i", "n", "f", "i", "n", "i", "t", "y">>) THEN j + 7
        ELSE IF HasWord(cs, j, <<"i", "n", "f">>) THEN j + 2
        ELSE IF HasWord(cs, j, <<"n", "a", "n">>)
             THEN IF j + 3 <= Len(cs) /\ cs[j + 3] = "(" /\ n <= Len(cs) /\ cs[n] = ")"
                  THEN n
                  ELSE j + 2
        ELSE IF HasWord(cs, j, <<"0", "x">>) /\ hex.digits > 0
             THEN WithExponent(cs, hex.end, {"p", "P"})
        ELSE IF dec.digits = 0 THEN 0
        ELSE WithExponent(cs, dec.end, {"e", "E"})

\* ----------------------------------------------------- typed validators
\* bits: the width of unsigned long of the build.
isUInt8(s, bits) ==
    IF ~isUInteger(s) THEN FALSE
    ELSE LET v == strtoul(s.chars, bits) IN AtEnd(v, s.chars) /\ UFits(v, <<"2", "5", "5">>)

isUInt16(s, bits) ==
    IF ~isUInteger(s) THEN FALSE
    ELSE LET v == strtoul(s.chars, bits) IN AtEnd(v, s.chars) /\ UFits(v, <<"6", "5", "5", "3", "5">>)

isUInt32(s, bits) ==
    IF ~isUInteger(s) THEN FALSE
    ELSE LET v == strtoul(s.chars, bits) IN AtEnd(v, s.chars)

isUInt64(s) ==
    IF ~isUInteger(s) THEN FALSE
    ELSE LET v == strtoull(s.chars) IN AtEnd(v, s.chars)

isInt8(s) ==
    IF ~isInteger(s) THEN FALSE
    ELSE LET v == strtoll(s.chars)
         IN  AtEnd(v, s.chars) /\ SFits(v, <<"1", "2", "8">>, <<"1", "2", "7">>)

isInt16(s) ==
    IF ~isInteger(s) THEN FALSE
    ELSE LET v == strtoll(s.chars)
         IN  AtEnd(v, s.chars) /\ SFits(v, <<"3", "2", "7", "6", "8">>, <<"3", "2", "7", "6", "7">>)

isInt32(s) ==
    IF ~isInteger(s) THEN FALSE
    ELSE LET v == strtoll(s.chars)
         IN  AtEnd(v, s.chars) /\ SFits(v, <<"2", "1", "4", "7", "4", "8", "3", "6", "4", "8">>, <<"2", "1", "4", "7", "4", "8", "3", "6", "4", "7">>)

isInt64(s) ==
    IF ~isInteger(s) THEN FALSE
    ELSE LET v == strtoll(s.chars) IN AtEnd(v, s.chars)

isFloat(s) == IF ~isNumber(s) THEN FALSE ELSE StrtodEnd(s.chars) = Len(s.chars)

isDouble(s) == IF ~isNumber(s) THEN FALSE ELSE StrtodEnd(s.chars) = Len(s.chars)

\* ----------------------------------------------------------- converters
\* The result of a converter: ok, what it returned; val, what it stored in
\* *out (meaningful when ok).  Unsigned values are digit strings, signed
\* values records [neg, mag].
Conv(ok, val) == [ok |-> ok, val |-> val]

NoValue == << >>

\* STREAMEX_STRING_CAP
StringCap == 32

dataTypeEnum ==
    {"noneType", "uint8Type", "uint16Type", "uint32Type", "uint64Type",
     "int8Type", "int16Type", "int32Type", "int64Type", "floatType",
     "doubleType", "charType", "stringType", "boolType"}

\* stringToUint8 / stringToUint16: strtoul, end check, range check.
stringToUintN(s, outnull, bits, max) ==
    IF s.null \/ outnull THEN Conv(FALSE, NoValue)
    ELSE LET v == strtoul(s.chars, bits)
         IN  IF ~AtEnd(v, s.chars) \/ ~UFits(v, max) THEN Conv(FALSE, NoValue)
             ELSE Conv(TRUE, v.mag)

stringToUint8(s, outnull, bits) == stringToUintN(s, outnull, bits, <<"2", "5", "5">>)

stringToUint16(s, outnull, bits) == stringToUintN(s, outnull, bits, <<"6", "5", "5", "3", "5">>)

\* stringToUint32: no range check; (uint32_t)v truncates a 64-bit v.
stringToUint32(s, outnull, bits) ==
    IF s.null \/ outnull THEN Conv(FALSE, NoValue)
    ELSE LET v == strtoul(s.chars, bits)
         IN  IF ~AtEnd(v, s.chars) THEN Conv(FALSE, NoValue)
             ELSE Conv(TRUE, DecMod(v.mag, Pow2_32))

stringToUint64(s, outnull) ==
    IF s.null \/ outnull THEN Conv(FALSE, NoValue)
    ELSE LET v == strtoull(s.chars)
         IN  IF ~AtEnd(v, s.chars) THEN Conv(FALSE, NoValue)
             ELSE Conv(TRUE, v.mag)

\* stringToInt8 / stringToInt16 / stringToInt32: strtoll, end check, range.
stringToIntN(s, outnull, minmag, max) ==
    IF s.null \/ outnull THEN Conv(FALSE, NoValue)
    ELSE LET v == strtoll(s.chars)
         IN  IF ~AtEnd(v, s.chars) \/ ~SFits(v, minmag, max) THEN Conv(FALSE, NoValue)
             ELSE Conv(TRUE, [neg |-> v.neg, mag |-> v.mag])

stringToInt8(s, outnull) == stringToIntN(s, outnull, <<"1", "2", "8">>, <<"1", "2", "7">>)

stringToInt16(s, outnull) == stringToIntN(s, outnull, <<"3", "2", "7", "6", "8">>, <<"3", "2", "7", "6", "7">>)

stringToInt32(s, outnull) == stringToIntN(s, outnull, <<"2", "1", "4", "7", "4", "8", "3", "6", "4", "8">>, <<"2", "1", "4", "7", "4", "8", "3", "6", "4", "7">>)

stringToInt64(s, outnull) ==
    IF s.null \/ outnull THEN Conv(FALSE, NoValue)
    ELSE LET v == strtoll(s.chars)
         IN  IF ~AtEnd(v, s.chars) THEN Conv(FALSE, NoValue)
             ELSE Conv(TRUE, [neg |-> v.neg, mag |-> v.mag])

\* stringToFloat / stringToDouble: the value is kept as the text converted.
stringToFloat(s, outnull) ==
    IF s.null \/ outnull THEN Conv(FALSE, NoValue)
    ELSE IF StrtodEnd(s.chars) # Len(s.chars) THEN Conv(FALSE, NoValue)
    ELSE Conv(TRUE, s.chars)

stringToDouble(s, outnull) == stringToFloat(s, outnull)

\* checkValueType: charType and stringType accept whatever they are given.
checkValueType(s, type, bits) ==
    CASE type = "uint8Type"  -> isUInt8(s, bits)
      [] type = "uint16Type" -> isUInt16(s, bits)
      [] type = "uint32Type" -> isUInt32(s, bits)
      [] type = "uint64Type" -> isUInt64(s)
      [] type = "int8Type"   -> isInt8(s)
      [] type = "int16Type"  -> isInt16(s)
      [] type = "int32Type"  -> isInt32(s)
      [] type = "int64Type"  -> isInt64(s)
      [] type = "floatType"  -> isFloat(s)
      [] type = "doubleType" -> isDouble(s)
      [] type = "charType"   -> TRUE
      [] type = "stringType" -> TRUE
      [] type = "boolType"   -> isBoolean(s)
      [] OTHER               -> FALSE

\* stringToNumber: the converters have no grammar check of their own, and
\* boolType, stringType and charType return true for every non-null string.
stringToNumber(s, numnull, type, bits) ==
    IF s.null \/ numnull THEN Conv(FALSE, NoValue)
    ELSE CASE type = "uint8Type"  -> stringToUint8(s, FALSE, bits)
           [] type = "uint16Type" -> stringToUint16(s, FALSE, bits)
           [] type = "uint32Type" -> stringToUint32(s, FALSE, bits)
           [] type = "uint64Type" -> stringToUint64(s, FALSE)
           [] type = "int8Type"   -> stringToInt8(s, FALSE)
           [] type = "int16Type"  -> stringToInt16(s, FALSE)
           [] type = "int32Type"  -> stringToInt32(s, FALSE)
           [] type = "int64Type"  -> stringToInt64(s, FALSE)
           [] type = "floatType"  -> stringToFloat(s, FALSE)
           [] type = "doubleType" -> stringToDouble(s, FALSE)
           [] type = "boolType"   ->
                  Conv(TRUE, s.chars = <<"1">> \/ iequal(s, CStr(<<"t", "r", "u", "e">>)))
           [] type = "stringType" ->
                  Conv(TRUE, SubSeq(s.chars, 1, Min(Len(s.chars), StringCap - 1)))
           [] type = "charType"   ->
                  Conv(TRUE, IF Len(s.chars) > 0 THEN <<s.chars[1]>> ELSE << >>)
           [] OTHER               -> Conv(FALSE, NoValue)

\* trimString works in place on a character array: the characters of the
\* string, its terminator, and whatever the caller's buffer holds behind
\* it up to maxSize.
NulChar == "NUL"

JunkChar == "#"

CharArray(cs, maxSize) ==
    cs \o <<NulChar>> \o [i \in 1..Max(maxSize - Len(cs) - 1, 0) |-> JunkChar]

\* safe_strnlen(str, maxlen) from n; strlen is the same loop without bound.
RECURSIVE strnlenFrom(_, _, _)
strnlenFrom(m, maxlen, n) ==
    IF n < maxlen /\ m[n + 1] # NulChar THEN strnlenFrom(m, maxlen, n + 1) ELSE n

safe_strnlen(m, maxlen) == strnlenFrom(m, maxlen, 0)

strlen(m) == strnlenFrom(m, Len(m), 0)

\* The C string held by a character array.
StringOf(m) == CStr(SubSeq(m, 1, strlen(m)))

\* while (start <= end && isspace(buf[start])) ++start;
RECURSIVE SkipLeading(_, _, _)
SkipLeading(m, start, end) ==
    IF start <= end /\ IsSpace(m[start + 1]) THEN SkipLeading(m, start + 1, end)
    ELSE start

\* while (end >= start && isspace(buf[end])) --end;
RECURSIVE SkipTrailing(_, _, _)
SkipTrailing(m, start, end) ==
    IF end >= start /\ IsSpace(m[end + 1]) THEN SkipTrailing(m, start, end - 1)
    ELSE end

\* for (i = start; i <= end; ++i) buf[out++] = buf[i];  buf[out] = '\0';
RECURSIVE Compact(_, _, _, _)
Compact(m, i, end, out) ==
    IF i <= end THEN Compact([m EXCEPT ![out + 1] = m[i + 1]], i + 1, end, out + 1)
    ELSE [m EXCEPT ![out + 1] = NulChar]

\* A compaction that forgets the skipped leading blanks.
TrimArrayKeepsLeading(m0, maxSize) ==
    LET m   == IF maxSize > 0 THEN [m0 EXCEPT ![maxSize] = NulChar] ELSE m0
        len == IF maxSize > 0 THEN safe_strnlen(m, maxSize) ELSE strlen(m)
    IN  IF len = 0 THEN m
        ELSE Compact(m, 0, SkipTrailing(m, 0, len - 1), 0)

\* trimString on the array m0.
TrimArray(m0, maxSize) ==
    LET m   == IF maxSize > 0 THEN [m0 EXCEPT ![maxSize] = NulChar] ELSE m0
        len == IF maxSize > 0 THEN safe_strnlen(m, maxSize) ELSE strlen(m)
    IN  IF len = 0 THEN m
        ELSE LET start == SkipLeading(m, 0, len - 1)
             IN  IF start > len - 1 THEN [m EXCEPT ![1] = NulChar]
                 ELSE Compact(m, start, SkipTrailing(m, start, len - 1), 0)

\* trimString(buf, maxSize): the string left in buf; a null buf is left alone.
trimString(s, maxSize) ==
    IF s.null THEN s ELSE StringOf(TrimArray(CharArray(s.chars, maxSize), maxSize))

\* snprintf(out, outCap, ...): at most outCap - 1 characters are stored.
snprintfKeepsOne(text, outCap) == SubSeq(text, 1, Min(Len(text), 1))

snprintf(text, outCap) == SubSeq(text, 1, Min(Len(text), outCap - 1))

\* "%u" / "%lu" / "%llu" of an unsigned value: its decimal digits.
PrintUnsigned(v) == Canon(v)

\* "%d" / "%ld" / "%lld" of a signed value: a minus sign for a negative
\* value, then the digits of its magnitude.
PrintSigned(v) == IF v.neg THEN <<"-">> \o Canon(v.mag) ELSE Canon(v.mag)

ZeroRun(k) == [i \in 1..k |-> "0"]

\* A float or double value given to dataValueToString is named by a decimal
\* number; the member of the union holds the float or double nearest to it:
\*   [kind |-> "num", neg, digits, exp]: (-)d1.d2...dn * 10^exp, << >> for
\*       zero;
\*   [kind |-> "inf", neg] and [kind |-> "nan", neg].
\* "%g" has a precision of 6 significant digits.
GDigits == 6

Num(neg, digits, exp) == [kind |-> "num", neg |-> neg, digits |-> digits, exp |-> exp]

NotANumber(neg) == [kind |-> "nan", neg |-> neg, digits |-> << >>, exp |-> 0]

Infinite(neg) == [kind |-> "inf", neg |-> neg, digits |-> << >>, exp |-> 0]

\* The decimal digits of a natural number.
RECURSIVE NatDigits(_)
NatDigits(n) ==
    IF n < 10 THEN <<DigitChars[n + 1]>>
    ELSE NatDigits(n \div 10) \o <<DigitChars[(n % 10) + 1]>>

\* Exact arithmetic on naturals of any size: a natural is the sequence of
\* its decimal digits (0..9), most significant first, << >> for zero.
RECURSIVE NoLeadingZeros(_)
NoLeadingZeros(x) ==
    IF x # << >> /\ x[1] = 0 THEN NoLeadingZeros(Tail(x)) ELSE x

Zeros(k) == [i \in 1..k |-> 0]

\* 2 * x: the carry into a digit is 1 exactly when the next digit is >= 5.
Double(x) ==
    LET z == <<0>> \o x
        n == Len(z)
    IN  NoLeadingZeros([i \in 1..n |->
            ((2 * z[i]) % 10) + (IF i < n /\ z[i + 1] >= 5 THEN 1 ELSE 0)])

\* x \div 2: an odd digit hands 5 to the digit behind it.
Halve(x) ==
    NoLeadingZeros([i \in 1..Len(x) |->
        (x[i] \div 2) + (IF i > 1 /\ x[i - 1] % 2 = 1 THEN 5 ELSE 0)])

\* 5 * x = 10 * x / 2.
Times5(x) == Halve(x \o <<0>>)

\* x * 2^n and x * 5^n.
RECURSIVE TimesPow2(_, _)
TimesPow2(x, n) ==
    IF n = 0 \/ x = << >> THEN x
    ELSE IF n = 1 THEN Double(x)
    ELSE TimesPow2(TimesPow2(x, n \div 2), n - (n \div 2))

RECURSIVE TimesPow5(_, _)
TimesPow5(x, n) ==
    IF n = 0 \/ x = << >> THEN x
    ELSE IF n = 1 THEN Times5(x)
    ELSE TimesPow5(TimesPow5(x, n \div 2), n - (n \div 2))

\* x < y.
Less(x, y) ==
    \/ Len(x) < Len(y)
    \/ /\ Len(x) = Len(y)
       /\ \E i \in 1..Len(x) : x[i] < y[i] /\ \A j \in 1..(i - 1) : x[j] = y[j]

\* x + 1.
Succ(x) ==
    LET n == Len(x)
    IN  IF \A i \in 1..n : x[i] = 9 THEN <<1>> \o Zeros(n)
        ELSE LET j == CHOOSE c \in 1..n :
                          x[c] # 9 /\ \A i \in (c + 1)..n : x[i] = 9
             IN  [i \in 1..n |-> IF i < j THEN x[i]
                                 ELSE IF i = j THEN x[i] + 1 ELSE 0]

\* An exact decimal fraction int * 10^exp.  Scaled(D, E, b) is
\* D * 10^E * 2^(-b): a division by 2 is a multiplication by 5 and a shift
\* of the decimal point.
Scaled(D, E, b) ==
    IF b <= 0 THEN [int |-> TimesPow2(D, -b), exp |-> E]
    ELSE [int |-> TimesPow5(D, b), exp |-> E - b]

\* The integer part of an exact decimal and the digits behind its point.
Floor(q) ==
    IF q.exp >= 0
    THEN (IF q.int = << >> THEN << >> ELSE q.int \o Zeros(q.exp))
    ELSE SubSeq(q.int, 1, Len(q.int) + q.exp)

Fraction(q) ==
    LET f == -q.exp
        n == Len(q.int)
    IN  IF q.exp >= 0 THEN << >>
        ELSE IF n >= f THEN SubSeq(q.int, n - f + 1, n)
        ELSE Zeros(f - n) \o q.int

\* Round to nearest, ties to even: head followed by the digits rest is
\* rounded to head or to head + 1.
RoundEven(head, rest) ==
    LET n     == Len(rest)
        more  == \E i \in 2..n : rest[i] # 0
        odd   == head # << >> /\ head[Len(head)] % 2 = 1
    IN  IF n > 0 /\ (rest[1] > 5 \/ (rest[1] = 5 /\ (more \/ odd)))
        THEN Succ(head) ELSE head

\* The binary formats: p bits of precision, the least and the greatest
\* exponent b of a value k * 2^b with k < 2^p (IEEE 754 binary32, binary64).
Format(type) ==
    IF type = "floatType" THEN [p |-> 24, bmin |-> -149, bmax |-> 104]
    ELSE [p |-> 53, bmin |-> -1074, bmax |-> 971]

\* A lower bound of floor(log2(10^n)) for |n| <= 400.
Log2Low(n) == ((n * 3321) \div 1000) - 1

\* The exact decimal q = value * 2^(-b) is halved, and b raised, until its
\* integer part is below top.
RECURSIVE Normal(_, _, _)
Normal(q, b, top) ==
    IF Less(Floor(q), top) THEN [q |-> q, b |-> b]
    ELSE Normal([int |-> Times5(q.int), exp |-> q.exp - 1], b + 1, top)

\* The value a float / double member holds for the decimal v: the nearest
\* k * 2^b of the format (ties to even), an infinity beyond its range, zero
\* below half its least subnormal.
Nearest(v, type) ==
    IF v.kind # "num" THEN v
    ELSE
    LET raw  == [i \in 1..Len(v.digits) |-> DigitVal(v.digits[i])]
        D    == NoLeadingZeros(raw)
        E    == v.exp - (Len(raw) - 1)
        n10  == Len(D) - 1 + E
        f    == Format(type)
        from == Max(Log2Low(n10) + 1 - f.p, f.bmin)
    IN  IF D = << >> \/ n10 < -400
        THEN [kind |-> "bin", neg |-> v.neg, k |-> << >>, b |-> 0]
        ELSE IF n10 > 400 \/ from > f.bmax THEN Infinite(v.neg)
        ELSE
        LET top == TimesPow2(<<1>>, f.p)
            n   == Normal(Scaled(D, E, from), from, top)
            k   == RoundEven(Floor(n.q), Fraction(n.q))
        IN  IF n.b > f.bmax \/ (n.b = f.bmax /\ k = top) THEN Infinite(v.neg)
            ELSE [kind |-> "bin", neg |-> v.neg, k |-> k, b |-> n.b]

RECURSIVE NoTrailingZeros(_)
NoTrailingZeros(x) ==
    IF x # << >> /\ x[Len(x)] = 0 THEN NoTrailingZeros(SubSeq(x, 1, Len(x) - 1))
    ELSE x

\* The value k * 2^b rounded to GDigits significant decimal digits, as
\* "%g" rounds it (to nearest, ties to even, on the exact value).
RoundG(w) ==
    IF w.kind # "bin" THEN w
    ELSE IF w.k = << >> THEN Num(w.neg, << >>, 0)
    ELSE
    LET q    == Scaled(w.k, 0, -w.b)
        n    == Len(q.int)
        X    == n - 1 + q.exp
        head == RoundEven(SubSeq(q.int, 1, Min(n, GDigits)),
                          SubSeq(q.int, GDigits + 1, n))
        d    == NoTrailingZeros(head)
    IN  Num(w.neg, [i \in 1..Len(d) |-> DigitChars[d[i] + 1]],
            IF Len(head) > GDigits THEN X + 1 ELSE X)

\* "%g" of a number of at most GDigits digits: style e when the exponent
\* is below -4 or not below the precision, else style f; trailing zeros
\* and a trailing '.' are removed; the exponent has a sign and at least
\* two digits.
FormatG(v) ==
    LET sign == IF v.neg THEN <<"-">> ELSE << >>
        n    == Len(v.digits)
        X    == v.exp
        xd   == NatDigits(IF X < 0 THEN -X ELSE X)
    IN  sign \o
        (CASE v.kind = "inf" -> <<"i", "n", "f">>
           [] v.kind = "nan" -> <<"n", "a", "n">>
           [] v.kind = "num" /\ n = 0 -> <<"0">>
           [] v.kind = "num" /\ n > 0 /\ (X < -4 \/ X >= GDigits) ->
                  <<v.digits[1]>>
                  \o (IF n > 1 THEN <<".">> \o SubSeq(v.digits, 2, n) ELSE << >>)
                  \o <<"e", IF X < 0 THEN "-" ELSE "+">>
                  \o (IF Len(xd) < 2 THEN <<"0">> ELSE << >>) \o xd
           [] v.kind = "num" /\ n > 0 /\ X >= 0 /\ X < GDigits ->
                  SubSeq(v.digits, 1, Min(n, X + 1))
                  \o ZeroRun(Max(X + 1 - n, 0))
                  \o (IF n > X + 1 THEN <<".">> \o SubSeq(v.digits, X + 2, n)
                      ELSE << >>)
           [] v.kind = "num" /\ n > 0 /\ X < 0 /\ X >= -4 ->
                  <<"0", ".">> \o ZeroRun(-X - 1) \o v.digits)

\* snprintf(out, outCap, "%g", (double)value.floatValue / doubleValue): the
\* widening of a float to double is exact.
PrintG(v, type) == FormatG(RoundG(Nearest(v, type)))

\* The text dataValueToString prints for a value of a type.
Printed(value, type) ==
    CASE type \in {"uint8Type", "uint16Type", "uint32Type", "uint64Type"} ->
             PrintUnsigned(value)
      [] type \in {"int8Type", "int16Type", "int32Type", "int64Type"} ->
             PrintSigned(value)
      [] type \in {"floatType", "doubleType"} -> PrintG(value, type)
      [] type = "boolType" ->
             IF value THEN <<"t", "r", "u", "e">> ELSE <<"f", "a", "l", "s", "e">>
      [] type = "stringType" -> value
      [] type = "charType" -> value
      [] OTHER -> <<"U", "n", "s", "u", "p", "p", "o", "r", "t", "e", "d", " ",
                    "T", "y", "p", "e">>

\* dataValueToString: nothing is written through a null out or with
\* outCap = 0 (ok is FALSE); otherwise val is the text left in out.
dataValueToString(outnull, outCap, value, type) ==
    IF outnull \/ outCap = 0 THEN Conv(FALSE, NoValue)
    ELSE Conv(TRUE, snprintf(Printed(value, type), outCap))

\* ----------------------------------------------------------------- state
\* What the last call was and what it returned: the operation (op) and the
\* direction it acted on (dir), its arguments (nullarg: the pointer argument
\* was null; data: the bytes passed; n: the size passed), the position of
\* the buffer before the call (used), and the call's result.
Call(op, dir, nullarg, data, n, used, r) ==
    [op |-> op, dir |-> dir, nullarg |-> nullarg, data |-> data, n |-> n,
     used |-> used, ret |-> r.ret, val |-> r.val, out |-> r.out,
     dropped |-> r.dropped, copied |-> r.copied,
     hi |-> r.hi, nullderef |-> r.nullderef]

\* The last call of a StreamEx_utility function: the function (fn), its
\* string argument (s), its type tag (type, where it takes one), the width
\* of unsigned long of the build (bits), and what it returned (ret) and
\* stored (val).
\* made tells where the text s came from: an input (Given), or the
\* value val of type type formatted by dataValueToString with outCap cap.
Given == [cap |-> 0, type |-> "noneType", val |-> << >>]

Applied(fn, s, type, bits, r, made) ==
    [fn |-> fn, s |-> s, type |-> type, bits |-> bits, ret |-> r.ok, val |-> r.val,
     made |-> made]

\* What a read through a null storage pointer may yield.
Garbage(b) == IF b.isnull /\ b.pos > 0 THEN [1..b.pos -> Bytes] ELSE {<< >>}

\* The buffer has storage: a non-null pointer and a capacity of at least 1.
HasStorage(b) == ~b.isnull /\ b.size >= 1

\* The call stored its terminator one byte past the end of the storage
\* (removeFront(0) on a buffer whose position equals its size, a
\* storage of size 0 included).
Overrun(r) == ~r.b.isnull /\ r.hi > r.b.size

\* What a call can leave of the other direction's buffer.  The byte past
\* the end of one storage is whatever the caller's memory layout puts
\* there: with the two storages adjacent (tx = mem, rx = mem + size, a
\* storage of size 0 included) it is byte 0 of the other storage, which
\* then receives the terminator; with any other layout the other storage
\* is left as it was.
Neighbour(other, r) ==
    IF Overrun(r) /\ HasStorage(other)
    THEN {other, [other EXCEPT !.buf = Store(other.buf, 0, NUL)]}
    ELSE {other}

\* What a call leaves of the other direction's buffer (other) and of
\* errorCode (err).  The terminator stored past the end of the storage
\* lands in one place: outside the object's state, on byte 0 of the other
\* storage, or, with the storage directly in front of the StreamEx object
\* (errorCode is its first member, one byte wide), on errorCode, which
\* then reads StreamExError::None.
Stray(other, r) ==
    {[other |-> o, err |-> r.err] : o \in Neighbour(other, r)} \cup
    (IF Overrun(r) THEN {[other |-> other, err |-> "None"]} ELSE {})

TxStep(op, nullarg, data, n, r) ==
    /\ tx' = r.b
    /\ last' = Call(op, "tx", nullarg, data, n, tx.pos, r)
    /\ \E o \in Stray(rx, r) : rx' = o.other /\ errorCode' = o.err
    /\ UNCHANGED <<conv, fifo>>

\* A call on RX, without the bookkeeping of fifo.
RxCall(op, nullarg, data, n, r) ==
    /\ rx' = r.b
    /\ last' = Call(op, "rx", nullarg, data, n, rx.pos, r)
    /\ \E o \in Stray(tx, r) : tx' = o.other /\ errorCode' = o.err
    /\ UNCHANGED conv

RxStep(op, nullarg, data, n, r) ==
    /\ RxCall(op, nullarg, data, n, r)
    /\ UNCHANGED fifo

\* The account a producer and a consumer keep of one buffer: how many bytes
\* were appended (app: the k-th byte appended is the number k), the bytes
\* delivered in order (del), and the bytes that left the buffer during an
\* append (evicted) or a removeFront (dropped).
NoTraffic == [app |-> 0, del |-> << >>, evicted |-> {}, dropped |-> {}]

\* The storage sizes explored: at most one direction at a time is given
\* more than SideCap bytes.
SizesOK(txsize, rxsize) ==
    /\ txsize <= MaxCap /\ rxsize <= MaxCap
    /\ txsize <= SideCap \/ rxsize <= SideCap

\* StreamEx::StreamEx: both buffers bound and zeroed, errorCode None.
Init ==
    /\ tx \in {Bound(p, s) : p \in BOOLEAN, s \in 0..MaxCap}
    /\ rx \in {Bound(p, s) : p \in BOOLEAN, s \in 0..MaxCap}
    /\ SizesOK(tx.size, rx.size)
    /\ errorCode = "None"
    /\ last = Call("StreamEx", "none", FALSE, << >>, 0, 0,
                   Res(tx, "None", TRUE, 0, << >>, 0, 0, 0, FALSE))
    /\ conv = Applied("none", NullStr, "noneType", 64, Conv(FALSE, NoValue), Given)
    /\ fifo = NoTraffic

\* --------------------------------------------------------------- actions
setTxBuffer ==
    \E p \in BOOLEAN, s \in 0..MaxCap :
        /\ SizesOK(s, rx.size)
        /\ TxStep("setBuffer", p, << >>, s, SetBuffer(p, s, errorCode))

setRxBuffer ==
    \E p \in BOOLEAN, s \in 0..MaxCap :
        /\ SizesOK(tx.size, s)
        /\ RxStep("setBuffer", p, << >>, s, SetBuffer(p, s, errorCode))

clearTxBuffer == TxStep("clearBuffer", FALSE, << >>, 0, ClearBuffer(tx, errorCode))

clearRxBuffer == RxStep("clearBuffer", FALSE, << >>, 0, ClearBuffer(rx, errorCode))

writeTxBuffer ==
    \E data \in Data, nullstore \in BOOLEAN :
        TxStep("writeBuffer", FALSE, data, Len(data),
               WriteBuffer(tx, data, Len(data), errorCode, nullstore))

writeRxBuffer ==
    \E data \in Data, nullstore \in BOOLEAN :
        RxStep("writeBuffer", FALSE, data, Len(data),
               WriteBuffer(rx, data, Len(data), errorCode, nullstore))

pushBackTxBuffer ==
    \/ \E data \in Data :
           TxStep("pushBack", FALSE, data, Len(data),
                  PushBack(tx, FALSE, data, Len(data), errorCode))
    \/ \E n \in Sizes :
           TxStep("pushBack", TRUE, << >>, n,
                  PushBack(tx, TRUE, << >>, n, errorCode))

pushBackRxBuffer ==
    \/ \E data \in Data :
           RxStep("pushBack", FALSE, data, Len(data),
                  PushBack(rx, FALSE, data, Len(data), errorCode))
    \/ \E n \in Sizes :
           RxStep("pushBack", TRUE, << >>, n,
                  PushBack(rx, TRUE, << >>, n, errorCode))

popFrontTxBuffer ==
    \E dstnull \in BOOLEAN, n \in Sizes, g \in Garbage(tx) :
        TxStep("popFront", dstnull, << >>, n,
               PopFront(tx, dstnull, n, errorCode, g))

popFrontRxBuffer ==
    \E dstnull \in BOOLEAN, n \in Sizes, g \in Garbage(rx) :
        RxStep("popFront", dstnull, << >>, n,
               PopFront(rx, dstnull, n, errorCode, g))

popAllTxBuffer ==
    \E dstnull \in BOOLEAN, n \in Sizes, g \in Garbage(tx) :
        TxStep("popAll", dstnull, << >>, n,
               PopAll(tx, dstnull, n, errorCode, g))

popAllRxBuffer ==
    \E dstnull \in BOOLEAN, n \in Sizes, g \in Garbage(rx) :
        RxStep("popAll", dstnull, << >>, n,
               PopAll(rx, dstnull, n, errorCode, g))

removeFrontTxBuffer ==
    \E n \in Sizes :
        TxStep("removeFront", FALSE, << >>, n, RemoveFront(tx, n, errorCode))

removeFrontRxBuffer ==
    \E n \in Sizes :
        RxStep("removeFront", FALSE, << >>, n, RemoveFront(rx, n, errorCode))

read == RxStep("read", FALSE, << >>, 0, Read(rx, errorCode))

peek == RxStep("peek", FALSE, << >>, 0, Peek(rx, errorCode))

flush == TxStep("flush", FALSE, << >>, 0, ClearBuffer(tx, errorCode))

write ==
    \/ \E data \in Data :
           TxStep("write", FALSE, data, Len(data),
                  Write(tx, FALSE, data, Len(data), errorCode))
    \/ \E n \in Sizes :
           TxStep("write", TRUE, << >>, n, Write(tx, TRUE, << >>, n, errorCode))

clearError ==
    /\ errorCode' = "None"
    /\ last' = Call("clearError", "none", FALSE, << >>, 0, 0,
                    Res(tx, "None", TRUE, 0, << >>, 0, 0, 0, FALSE))
    /\ UNCHANGED <<tx, rx, conv, fifo>>

Next ==
    \/ setTxBuffer \/ setRxBuffer \/ clearTxBuffer \/ clearRxBuffer
    \/ writeTxBuffer \/ writeRxBuffer
    \/ pushBackTxBuffer \/ pushBackRxBuffer
    \/ popFrontTxBuffer \/ popFrontRxBuffer
    \/ popAllTxBuffer \/ popAllRxBuffer
    \/ removeFrontTxBuffer \/ removeFrontRxBuffer
    \/ read \/ peek \/ flush \/ write \/ clearError

Spec == Init /\ [][Next]_vars

\* Binding and appending only: the runs in which a buffer, once bound, is
\* changed by nothing but pushBackTxBuffer / pushBackRxBuffer / write.
NextAppend ==
    \/ setTxBuffer \/ setRxBuffer
    \/ pushBackTxBuffer \/ pushBackRxBuffer \/ write
    \/ clearError

SpecAppend == Init /\ [][NextAppend]_vars

\* ------------------------------------------------ codec specification
\* The texts the codec functions are applied to: every string over
\* TextChars up to MaxText characters, the numerals around the bounds of
\* the integer types with and without sign and leading zeros, every
\* upper/lower-case spelling of "true" and "false", other words, and the
\* null pointer.
TextChars == {"0", "1", "5", "+", "-", ".", " ", "e"}

Texts == UNION {[1..k -> TextChars] : k \in 0..MaxText}

Boundaries ==
    {<<"0">>,
     <<"1">>,
     <<"2">>,
     <<"9">>,
     <<"1", "0">>,
     <<"9", "9">>,
     <<"1", "2", "7">>,
     <<"1", "2", "8">>,
     <<"1", "2", "9">>,
     <<"2", "5", "4">>,
     <<"2", "5", "5">>,
     <<"2", "5", "6">>,
     <<"2", "5", "7">>,
     <<"9", "9", "9">>,
     <<"3", "2", "7", "6", "7">>,
     <<"3", "2", "7", "6", "8">>,
     <<"3", "2", "7", "6", "9">>,
     <<"6", "5", "5", "3", "5">>,
     <<"6", "5", "5", "3", "6">>,
     <<"6", "5", "5", "3", "7">>,
     <<"9", "9", "9", "9", "9">>,
     <<"2", "1", "4", "7", "4", "8", "3", "6", "4", "7">>,
     <<"2", "1", "4", "7", "4", "8", "3", "6", "4", "8">>,
     <<"2", "1", "4", "7", "4", "8", "3", "6", "4", "9">>,
     <<"4", "2", "9", "4", "9", "6", "7", "2", "9", "5">>,
     <<"4", "2", "9", "4", "9", "6", "7", "2", "9", "6">>,
     <<"4", "2", "9", "4", "9", "6", "7", "2", "9", "7">>,
     <<"9", "2", "2", "3", "3", "7", "2", "0", "3", "6", "8", "5", "4", "7", "7", "5", "8", "0", "7">>,
     <<"9", "2", "2", "3", "3", "7", "2", "0", "3", "6", "8", "5", "4", "7", "7", "5", "8", "0", "8">>,
     <<"9", "2", "2", "3", "3", "7", "2", "0", "3", "6", "8", "5", "4", "7", "7", "5", "8", "0", "9">>,
     <<"1", "8", "4", "4", "6", "7", "4", "4", "0", "7", "3", "7", "0", "9", "5", "5", "1", "6", "1", "5">>,
     <<"1", "8", "4", "4", "6", "7", "4", "4", "0", "7", "3", "7", "0", "9", "5", "5", "1", "6", "1", "6">>,
     <<"1", "8", "4", "4", "6", "7", "4", "4", "0", "7", "3", "7", "0", "9", "5", "5", "1", "3", "6", "1">>,
     <<"1", "8", "4", "4", "6", "7", "4", "4", "0", "7", "3", "7", "0", "9", "5", "5", "1", "3", "6", "0">>,
     <<"9", "9", "9", "9", "9", "9", "9", "9", "9", "9", "9", "9", "9", "9", "9", "9", "9", "9", "9", "9", "9", "9", "9">>}

Numerals ==
    {sg \o ZeroRun(z) \o b :
        sg \in {<< >>, <<"+">>, <<"-">>}, z \in 0..ZeroPad, b \in Boundaries}

toup(c) ==
    IF \E i \in 1..26 : LowerChars[i] = c
    THEN UpperChars[CHOOSE i \in 1..26 : LowerChars[i] = c]
    ELSE c

Spellings(w) ==
    {[i \in 1..Len(w) |-> IF i \in U THEN toup(w[i]) ELSE w[i]] :
        U \in SUBSET (1..Len(w))}

Words ==
    {<<"y", "e", "s">>,
     <<"n", "o">>,
     <<"o", "n">>,
     <<"t", "r", "u">>,
     <<"t", "r", "u", "e", "e">>,
     <<"f", "a", "l", "s">>,
     <<"f", "a", "l", "s", "e", "e">>,
     <<"t">>,
     <<"f">>,
     <<"t", "r", "u", "e", " ">>,
     <<" ", "t", "r", "u", "e">>,
     <<"0", " ">>,
     <<" ", " ", "h", "i", " ", "t", "h", "e", "r", "e", " ", " ">>,
     <<"\t", "1", " ", "5", "\n">>,
     <<" ", "\t", "\n">>,
     <<VTab, "1">>,
     <<"1", VTab>>,
     <<VTab, "h", "i", VTab>>,
     <<"0", "x", "1", "0">>,
     <<"0", "X", "1", "p", "3">>,
     <<"0", "x">>,
     <<"n", "a", "n", "(", "a", ")">>,
     <<"n", "a", "n", "(">>,
     <<" ", "1">>,
     <<"0", "0">>,
     <<"0", "1">>,
     <<"1", "0">>,
     <<"1", "1">>,
     <<"t", "r", "u", "e", "f", "a", "l", "s", "e">>,
     <<"t", "1", "u", "e">>,
     <<"i", "n", "f">>,
     <<"n", "a", "n">>,
     <<"1", "e", "5">>,
     <<"1", ".", "5", "e", "+", "1">>,
     <<"-", "i", "n", "f", "i", "n", "i", "t", "y">>}

Inputs ==
    {NullStr} \cup
    {CStr(cs) : cs \in Texts \cup Numerals \cup Words
                       \cup Spellings(<<"t", "r", "u", "e">>)
                       \cup Spellings(<<"f", "a", "l", "s", "e">>)}

\* A codec function is pure: each behaviour fixes one text and one build
\* and applies the functions to it.
InitCodec ==
    /\ tx = Bound(TRUE, 0)
    /\ rx = Bound(TRUE, 0)
    /\ errorCode = "None"
    /\ last = Call("StreamEx", "none", FALSE, << >>, 0, 0,
                   Res(tx, "None", TRUE, 0, << >>, 0, 0, 0, FALSE))
    /\ \E s \in Inputs, bits \in ULongBits :
           conv = Applied("none", s, "noneType", bits, Conv(FALSE, NoValue), Given)
    /\ fifo = NoTraffic

\* fn(conv.s) was called and returned ok (and stored val).
Apply(fn, type, r) ==
    /\ conv' = Applied(fn, conv.s, type, conv.bits, r, conv.made)
    /\ UNCHANGED <<tx, rx, errorCode, last, fifo>>

Validated(fn, ok) == Apply(fn, "noneType", Conv(ok, NoValue))

ApplyIsNumber   == Validated("isNumber", isNumber(conv.s))
ApplyIsInteger  == Validated("isInteger", isInteger(conv.s))
ApplyIsUInteger == Validated("isUInteger", isUInteger(conv.s))
ApplyIsUInt8    == Validated("isUInt8", isUInt8(conv.s, conv.bits))
ApplyIsUInt16   == Validated("isUInt16", isUInt16(conv.s, conv.bits))
ApplyIsUInt32   == Validated("isUInt32", isUInt32(conv.s, conv.bits))
ApplyIsUInt64   == Validated("isUInt64", isUInt64(conv.s))
ApplyIsInt8     == Validated("isInt8", isInt8(conv.s))
ApplyIsInt16    == Validated("isInt16", isInt16(conv.s))
ApplyIsInt32    == Validated("isInt32", isInt32(conv.s))
ApplyIsInt64    == Validated("isInt64", isInt64(conv.s))
ApplyIsFloat    == Validated("isFloat", isFloat(conv.s))
ApplyIsDouble   == Validated("isDouble", isDouble(conv.s))
ApplyIsBoolean  == Validated("isBoolean", isBoolean(conv.s))

ApplyCheckValueType ==
    \E type \in dataTypeEnum :
        Apply("checkValueType", type,
              Conv(checkValueType(conv.s, type, conv.bits), NoValue))

ApplyStringToNumber ==
    \E type \in dataTypeEnum :
        Apply("stringToNumber", type,
              stringToNumber(conv.s, FALSE, type, conv.bits))

\* trimString(buf, maxSize) on the text: the text becomes what is left in
\* buf, and val keeps the call's arguments. As with dataValueToString, a
\* behaviour trims at most once, before the text is read.
TrimSizes == 0..MaxTrim

ApplyTrimString ==
    /\ conv.fn = "none"
    /\ \E maxSize \in TrimSizes :
           /\ conv' = Applied("trimString", trimString(conv.s, maxSize), "noneType",
                              conv.bits,
                              Conv(~conv.s.null, [before |-> conv.s, maxSize |-> maxSize]),
                              Given)
           /\ UNCHANGED <<tx, rx, errorCode, last, fifo>>

\* The values of a type given to dataValueToString: for the integer types
\* the numerals of Boundaries that the type can represent, with either sign.
Negative(mag) == [neg |-> TRUE, mag |-> mag]

NonNegative(mag) == [neg |-> FALSE, mag |-> mag]

UnsignedValues(max) == {b \in Boundaries : DecLeq(b, max)}

SignedValues(minmag, max) ==
    {NonNegative(b) : b \in UnsignedValues(max)} \cup
    {Negative(b) : b \in UnsignedValues(minmag) \ {<<"0">>}}

FloatValues ==
    {Num(FALSE, << >>, 0), Num(TRUE, << >>, 0),
     Num(FALSE, <<"1", "5">>, 0), Num(TRUE, <<"2", "5">>, 10),
     Num(FALSE, <<"1">>, 5), Num(FALSE, <<"1">>, 6),
     Num(FALSE, <<"1">>, -4), Num(FALSE, <<"1", "2", "5">>, -5),
     Num(TRUE, <<"1", "2", "3", "4", "5", "6">>, 2),
     Num(FALSE, <<"1", "2", "3", "4", "5", "6", "7">>, 0),
     Num(FALSE, <<"1">>, 39), Num(TRUE, <<"1">>, -50), Num(FALSE, <<"1">>, -40),
     Num(FALSE, <<"1">>, -323), Num(FALSE, <<"1">>, 309),
     Infinite(FALSE), Infinite(TRUE), NotANumber(FALSE)}

Values(type) ==
    CASE type = "uint8Type"  -> UnsignedValues(<<"2", "5", "5">>)
      [] type = "uint16Type" -> UnsignedValues(<<"6", "5", "5", "3", "5">>)
      [] type = "uint32Type" -> UnsignedValues(UInt32Max)
      [] type = "uint64Type" -> UnsignedValues(UInt64Max)
      [] type = "int8Type"   -> SignedValues(<<"1", "2", "8">>, <<"1", "2", "7">>)
      [] type = "int16Type"  -> SignedValues(<<"3", "2", "7", "6", "8">>,
                                             <<"3", "2", "7", "6", "7">>)
      [] type = "int32Type"  ->
             SignedValues(<<"2", "1", "4", "7", "4", "8", "3", "6", "4", "8">>,
                          <<"2", "1", "4", "7", "4", "8", "3", "6", "4", "7">>)
      [] type = "int64Type"  -> SignedValues(Pow2_63, Int64Max)
      [] type \in {"floatType", "doubleType"} -> FloatValues
      [] type = "boolType"   -> BOOLEAN
      [] type = "stringType" -> {<< >>, <<"h", "i">>, <<"1", "5">>}
      [] type = "charType"   -> {<< >>, <<"1">>, <<"t">>}
      [] OTHER               -> {NoValue}

ValuesOf == [type \in dataTypeEnum |-> Values(type)]

OutCaps == {0, 2, MaxOut}

\* What out holds before dataValueToString is called; the call reads none
\* of it.
OutBefore == {NullStr, CStr(<< >>), CStr(<<"1">>)}

\* dataValueToString(out, outCap, value, type): out becomes the text the
\* later calls are given; a call that writes nothing leaves it alone. The
\* functions are pure, so a behaviour prints at most once, before the text
\* is read.
ApplyDataValueToString ==
    /\ conv.fn = "none"
    /\ conv.s \in OutBefore
    /\ \E type \in dataTypeEnum, outnull \in BOOLEAN, outCap \in OutCaps :
           \E value \in ValuesOf[type] :
               LET r == dataValueToString(outnull, outCap, value, type)
               IN  /\ conv' = Applied("dataValueToString",
                                      IF r.ok THEN CStr(r.val) ELSE conv.s,
                                      type, conv.bits,
                                      Conv(r.ok, IF r.ok THEN value ELSE NoValue),
                                      IF r.ok
                                      THEN [cap |-> outCap, type |-> type, val |-> value]
                                      ELSE conv.made)
                   /\ UNCHANGED <<tx, rx, errorCode, last, fifo>>

NextCodec ==
    \/ ApplyIsNumber \/ ApplyIsInteger \/ ApplyIsUInteger
    \/ ApplyIsUInt8 \/ ApplyIsUInt16 \/ ApplyIsUInt32 \/ ApplyIsUInt64
    \/ ApplyIsInt8 \/ ApplyIsInt16 \/ ApplyIsInt32 \/ ApplyIsInt64
    \/ ApplyIsFloat \/ ApplyIsDouble \/ ApplyIsBoolean
    \/ ApplyCheckValueType \/ ApplyStringToNumber
    \/ ApplyDataValueToString \/ ApplyTrimString

SpecCodec == InitCodec /\ [][NextCodec]_vars

\* ------------------------------------------------------- producer/consumer
\* One RX buffer with storage, a producer that appends runs of at most
\* capacity - 1 bytes, numbering the bytes 1, 2, 3, ... as it sends them,
\* and a consumer that takes bytes from the front.  fifo is their account.
InitFifo ==
    /\ tx = Bound(TRUE, 0)
    /\ rx \in {Bound(FALSE, s) : s \in 2..MaxCap}
    /\ errorCode = "None"
    /\ last = Call("StreamEx", "none", FALSE, << >>, 0, 0,
                   Res(tx, "None", TRUE, 0, << >>, 0, 0, 0, FALSE))
    /\ conv = Applied("none", NullStr, "noneType", 64, Conv(FALSE, NoValue), Given)
    /\ fifo = NoTraffic

Range(seq) == {seq[i] : i \in 1..Len(seq)}

\* The bytes that were in RX before the call and are not after it.
Gone(r) == Range(Content(rx)) \ Range(Content(r.b))

\* The bytes a pop put at dst: those before the terminator.
RECURSIVE UpToNul(_)
UpToNul(out) ==
    IF out = << >> \/ Head(out) = NUL THEN << >>
    ELSE <<Head(out)>> \o UpToNul(Tail(out))

FifoPushBack ==
    \E k \in 1..Min(rx.size - 1, MaxData) :
        /\ fifo.app + k <= MaxSent
        /\ LET data == [i \in 1..k |-> fifo.app + i]
               r    == PushBack(rx, FALSE, data, k, errorCode)
           IN  /\ RxCall("pushBack", FALSE, data, k, r)
               /\ fifo' = [fifo EXCEPT !.app = fifo.app + k,
                                       !.evicted = fifo.evicted \cup Gone(r)]

FifoPopFront ==
    \E dstnull \in BOOLEAN, n \in Sizes :
        LET r == PopFront(rx, dstnull, n, errorCode, << >>)
        IN  /\ RxCall("popFront", dstnull, << >>, n, r)
            /\ fifo' = [fifo EXCEPT !.del = fifo.del \o UpToNul(r.out)]

FifoPopAll ==
    \E dstnull \in BOOLEAN, n \in Sizes :
        LET r == PopAll(rx, dstnull, n, errorCode, << >>)
        IN  /\ RxCall("popAll", dstnull, << >>, n, r)
            /\ fifo' = [fifo EXCEPT !.del = fifo.del \o UpToNul(r.out)]

FifoRemoveFront ==
    \E n \in Sizes :
        LET r == RemoveFront(rx, n, errorCode)
        IN  /\ RxCall("removeFront", FALSE, << >>, n, r)
            /\ fifo' = [fifo EXCEPT !.dropped = fifo.dropped \cup Gone(r)]

FifoRead ==
    LET r == Read(rx, errorCode)
    IN  /\ RxCall("read", FALSE, << >>, 0, r)
        /\ fifo' = [fifo EXCEPT !.del = IF r.val = -1 THEN fifo.del
                                        ELSE fifo.del \o <<r.val>>]

NextFifo ==
    \/ FifoPushBack \/ FifoPopFront \/ FifoPopAll \/ FifoRemoveFront \/ FifoRead

SpecFifo == InitFifo /\ [][NextFifo]_vars

\* ------------------------------------------------------------ vocabulary
Dirs == {"tx", "rx"}

\* The buffer of a direction, and the buffer the last call acted on.
Buf(d) == IF d = "tx" THEN tx ELSE rx

Target == Buf(last.dir)

\* The last call was op, on a buffer that has storage.
Did(op) == last.op = op /\ last.dir \in Dirs /\ HasStorage(Target)

\* The last call was an append of a non-null data run to a buffer with storage.
Appended == Did("pushBack") /\ ~last.nullarg


\* ---------------------------------------------------------------- claims

\* C1: for a buffer bound with capacity C >= 1, after any sequence of appends
\* (any data, any size, sizes above C included) the used length stays within
\* 0 .. C-1.  Checked under SpecAppend, where a bound buffer is changed by
\* appends only.
C1_AppendKeepsReserve ==
    \A d \in Dirs :
        Buf(d).size >= 1 => (0 <= Buf(d).pos /\ Buf(d).pos <= Buf(d).size - 1)

\* An append larger than the capacity has left a buffer of capacity >= 2 full.
C1_Witness ==
    /\ Appended
    /\ Target.size >= 2
    /\ last.n > Target.size
    /\ Target.pos = Target.size - 1

\* C2: in every state reachable by the public buffer operations, a buffer
\* with capacity > 0 has 0 <= used_length < capacity.
C2_UsedBelowCapacity ==
    \A d \in Dirs :
        HasStorage(Buf(d)) => (0 <= Buf(d).pos /\ Buf(d).pos < Buf(d).size)

\* C3: every read or write of backing storage by a buffer operation targets
\* an index in [0, capacity).
C3_AccessInBounds ==
    (last.dir \in Dirs /\ HasStorage(Target)) => last.hi <= Target.size

\* The free space before the last call, as the claim C4 defines it, and as
\* the append computes it (never negative).
C4_FreeAsClaimed == Target.size - last.used - 1

C4_Free == Max(Target.size - last.used - 1, 0)

\* C4 as stated: an append of n bytes to a buffer whose free space
\* f = C - used_length - 1 is below n evicts exactly n - f oldest bytes,
\* leaves the buffer exactly full and latches BufferOverflow.
C4_EvictsExactDeficit ==
    (Appended /\ last.n > C4_FreeAsClaimed) =>
        /\ last.dropped = last.n - C4_FreeAsClaimed
        /\ Target.pos = Target.size - 1
        /\ errorCode = "BufferOverflow"

\* C4 as amended: an append of n bytes to a buffer whose free space
\* f = max(C - used_length - 1, 0) is below n evicts exactly
\* min(n - f, used_length) oldest bytes (it cannot evict more than the
\* buffer holds), leaves the buffer exactly full and latches BufferOverflow.
C4_EvictsDeficitOrAll ==
    (Appended /\ last.n > C4_Free) =>
        /\ last.dropped = Min(last.n - C4_Free, last.used)
        /\ Target.pos = Target.size - 1
        /\ errorCode = "BufferOverflow"

\* An overflowing append has evicted some, not all, of the resident bytes.
C4_Witness ==
    /\ Appended
    /\ last.n > C4_Free
    /\ last.dropped >= 1
    /\ last.dropped < last.used
    /\ last.dropped = last.n - C4_Free

\* C5: in every reachable state, an append of n bytes with 1 <= n <= C-1
\* ends with all n new bytes stored, in order, as the last n bytes of the
\* content.
C5_AppendFitsWhole ==
    (Appended /\ 1 <= last.n /\ last.n <= Target.size - 1) =>
        /\ Target.pos >= last.n
        /\ LastK(Content(Target), last.n) = last.data

\* C6: sliding window.  For a buffer of capacity C holding B with
\* |B| <= C-1, appending D with |D| <= C-1 leaves exactly the last
\* min(|B|+|D|, C-1) bytes of B ++ D.
C6_SlidingWindow ==
    [][\A d \in Dirs :
         LET pre  == IF d = "tx" THEN tx ELSE rx
             post == IF d = "tx" THEN tx' ELSE rx'
         IN  ( /\ last'.op = "pushBack" /\ last'.dir = d /\ ~last'.nullarg
               /\ HasStorage(pre)
               /\ pre.pos <= pre.size - 1
               /\ last'.n <= pre.size - 1 )
             => Content(post) =
                    LastK(Content(pre) \o last'.data,
                          Min(pre.pos + last'.n, pre.size - 1))]_vars

\* An append has evicted oldest bytes, kept survivors and stored all of D.
C6_Witness ==
    /\ Appended
    /\ last.used <= Target.size - 1
    /\ last.n <= Target.size - 1
    /\ last.dropped >= 1
    /\ last.dropped < last.used
    /\ last.copied = last.n
    /\ Target.pos = Target.size - 1

\* C7: an append of size > capacity - 1 leaves exactly the last
\* capacity - 1 bytes of the requested run, with BufferOverflow latched.
C7_KeepsLastOfOversized ==
    (Appended /\ last.n > Target.size - 1) =>
        /\ Content(Target) = LastK(last.data, Target.size - 1)
        /\ errorCode = "BufferOverflow"

\* C8: an append returns true only when all dataSize bytes were appended
\* without dropping anything; a call that drops oldest bytes to make room
\* (a call that sets BufferOverflow) returns false.
C8_TrueOnlyWithoutDrop ==
    Appended =>
        /\ last.ret => (last.copied = last.n /\ last.dropped = 0)
        /\ (last.dropped > 0 \/ last.n > C4_Free) => ~last.ret

\* C9: for a buffer with storage and non-null data, an append returns true
\* iff all dataSize bytes were copied by the call (the whole request is at
\* the tail afterwards), and false exactly when fewer were copied.
C9_TrueIffAllCopied ==
    Appended =>
        /\ last.ret <=> ( /\ last.copied = last.n
                          /\ Target.pos >= last.n
                          /\ LastK(Content(Target), last.n) = last.data )
        /\ ~last.ret <=> last.copied < last.n

\* An append that evicted oldest bytes stored its whole request and
\* returned true.
C9_Witness ==
    /\ Appended
    /\ last.ret
    /\ last.n >= 1
    /\ last.dropped >= 1
    /\ LastK(Content(Target), last.n) = last.data

\* C10: popFront with a non-null destination and 1 <= dataSize <=
\* used_length returns true in every reachable state, whatever failed
\* earlier and whether or not clearError() was called.
C10_PopOfAvailableSucceeds ==
    (Did("popFront") /\ ~last.nullarg /\ 1 <= last.n /\ last.n <= last.used)
        => last.ret

\* C11: popFront with a non-null destination and a requested size greater
\* than used_length (used_length >= 1) clamps to used_length: it copies
\* exactly the used_length resident bytes, in order, to the destination,
\* latches NotEnoughData, returns false and leaves the buffer empty.
C11_PopClamps ==
    [][\A d \in Dirs :
         LET pre  == IF d = "tx" THEN tx ELSE rx
             post == IF d = "tx" THEN tx' ELSE rx'
         IN  ( /\ last'.op = "popFront" /\ last'.dir = d /\ ~last'.nullarg
               /\ HasStorage(pre)
               /\ pre.pos >= 1
               /\ last'.n > pre.pos )
             => /\ last'.out = Content(pre)
                /\ Len(last'.out) = pre.pos
                /\ errorCode' = "NotEnoughData"
                /\ ~last'.ret
                /\ post.pos = 0]_vars

\* A popFront asked for more than the two resident bytes and got those two.
C11_Witness ==
    /\ Did("popFront") /\ ~last.nullarg
    /\ last.used = 2
    /\ last.n > last.used
    /\ Len(last.out) = 2
    /\ ~last.ret
    /\ errorCode = "NotEnoughData"
    /\ Target.pos = 0

\* C12: on an empty buffer of capacity C (freshly bound or cleared, or
\* emptied in any other way), appending a byte string x with
\* len(x) <= C-1 and then immediately calling popAll with a non-null
\* destination and maxSize >= len(x) yields exactly x in the output and
\* leaves the buffer empty.
C12_AppendPopAllRoundTrip ==
    [][\A d \in Dirs :
         LET pre  == IF d = "tx" THEN tx ELSE rx
             post == IF d = "tx" THEN tx' ELSE rx'
         IN  ( /\ last.op = "pushBack" /\ last.dir = d /\ ~last.nullarg
               /\ HasStorage(pre)
               /\ last.used = 0
               /\ last.n <= pre.size - 1
               /\ last'.op = "popAll" /\ last'.dir = d /\ ~last'.nullarg
               /\ last'.n >= last.n )
             => /\ last'.out = last.data
                /\ post.pos = 0]_vars

\* A popAll has handed out a two-byte content whole, its bytes different,
\* and emptied the buffer.
C12_Witness ==
    /\ Did("popAll") /\ ~last.nullarg
    /\ last.used = 2
    /\ last.n >= 2
    /\ Len(last.out) = 2
    /\ last.out[1] # last.out[2]
    /\ last.ret
    /\ Target.pos = 0

\* The last call broke a precondition the claim C13 names: an append with
\* null data, or a popFront / popAll with a null destination or a size of 0.
C13_BadArgs(c) ==
    /\ c.op \in {"pushBack", "popFront", "popAll"}
    /\ c.dir \in Dirs
    /\ c.nullarg \/ (c.op # "pushBack" /\ c.n = 0)

\* C13: precondition violations leave the buffers untouched.  An append
\* with null data, and a popFront / popAll with a null destination or a
\* zero size, return false, latch NullData (null pointer) or SizeZero
\* (non-null pointer, size 0), and leave storage and used_length of both
\* buffers unchanged.
C13_BadArgsTouchNothing ==
    [][C13_BadArgs(last') =>
          /\ ~last'.ret
          /\ errorCode' = IF last'.nullarg THEN "NullData" ELSE "SizeZero"
          /\ tx' = tx
          /\ rx' = rx]_vars

\* A popFront of size 0 was rejected on a buffer holding two bytes.
C13_Witness ==
    /\ Did("popFront") /\ ~last.nullarg
    /\ last.n = 0
    /\ last.used = 2
    /\ Target.pos = 2
    /\ ~last.ret
    /\ errorCode = "SizeZero"

\* C14: overwrite (writeTxBuffer / writeRxBuffer) with size > capacity
\* returns false, latches BufferOverflow and leaves the buffer's content and
\* used_length exactly as they were.
C14_OversizedOverwriteRejected ==
    [][\A d \in Dirs :
         LET pre  == IF d = "tx" THEN tx ELSE rx
         IN  ( /\ last'.op = "writeBuffer" /\ last'.dir = d
               /\ last'.n > pre.size )
             => /\ ~last'.ret
                /\ errorCode' = "BufferOverflow"
                /\ tx' = tx
                /\ rx' = rx]_vars

\* An overwrite larger than the storage was rejected on a buffer holding
\* one byte.
C14_Witness ==
    /\ Did("writeBuffer")
    /\ last.n > Target.size
    /\ last.used = 1
    /\ Target.pos = 1
    /\ ~last.ret
    /\ errorCode = "BufferOverflow"

\* C15: after a successful overwrite writeTxBuffer(data, n), any
\* n <= capacity, the TX buffer contains exactly the n bytes of data:
\* used_length = n and storage[0..n-1] = data[0..n-1].
C15_OverwriteStoresData ==
    (Did("writeBuffer") /\ last.dir = "tx" /\ last.ret) =>
        /\ tx.pos = last.n
        /\ SubSeq(tx.buf, 1, last.n) = last.data

\* C16: removeFrontTxBuffer / removeFrontRxBuffer(n) is all-or-nothing.  If
\* n > used_length it returns false, latches NotEnoughData and changes
\* neither content nor used_length; otherwise it returns true, removes
\* exactly the first n bytes and keeps the remaining used_length - n bytes
\* in their original order at the front.
C16_RemoveFrontAllOrNothing ==
    [][\A d \in Dirs :
         LET pre  == IF d = "tx" THEN tx ELSE rx
             post == IF d = "tx" THEN tx' ELSE rx'
         IN  ( /\ last'.op = "removeFront" /\ last'.dir = d
               /\ HasStorage(pre) )
             => IF last'.n > pre.pos
                THEN /\ ~last'.ret
                     /\ errorCode' = "NotEnoughData"
                     /\ post = pre
                ELSE /\ last'.ret
                     /\ post.pos = pre.pos - last'.n
                     /\ Content(post) =
                            SubSeq(Content(pre), last'.n + 1, pre.pos)]_vars

\* A removeFront took one byte off a buffer of two and left the other at
\* the front.
C16_Witness ==
    /\ Did("removeFront")
    /\ last.used = 2
    /\ last.n = 1
    /\ last.ret
    /\ Target.pos = 1
    /\ Target.buf[1] \in Bytes

\* C17: popAll(out, maxSize) with non-null out and maxSize >= 1 copies
\* exactly the first k = min(used_length, maxSize) bytes to out, removes
\* exactly those k bytes from the front and leaves the remaining
\* used_length - k bytes, in order, as the new content.
C17_PopAllTakesFront ==
    [][\A d \in Dirs :
         LET pre  == IF d = "tx" THEN tx ELSE rx
             post == IF d = "tx" THEN tx' ELSE rx'
             k    == Min(pre.pos, last'.n)
         IN  ( /\ last'.op = "popAll" /\ last'.dir = d /\ ~last'.nullarg
               /\ HasStorage(pre)
               /\ last'.n >= 1 )
             => /\ last'.out = SubSeq(Content(pre), 1, k)
                /\ Len(last'.out) = k
                /\ post.pos = pre.pos - k
                /\ Content(post) = SubSeq(Content(pre), k + 1, pre.pos)]_vars

\* A popAll with maxSize 1 took the first of two bytes and left the second
\* at the front.
C17_Witness ==
    /\ Did("popAll") /\ ~last.nullarg
    /\ last.used = 2
    /\ last.n = 1
    /\ Len(last.out) = 1
    /\ Target.pos = 1
    /\ Target.buf[1] \in Bytes
    /\ Target.buf[1] # last.out[1]

\* C18: after any call popAllTxBuffer(data, maxSize) with valid arguments
\* (non-null data, maxSize >= 1) the TX buffer is cleared:
\* availableTx() = 0.
C18_PopAllClearsTx ==
    (Did("popAll") /\ last.dir = "tx" /\ ~last.nullarg /\ last.n >= 1)
        => tx.pos = 0

\* The fallible buffer operations.
FallibleOps == {"writeBuffer", "pushBack", "popFront", "popAll", "removeFront"}

\* The last call was a fallible buffer operation that fully succeeded: it
\* returned true and, for an append, the request fitted the free space.
C19_FullySucceeded ==
    /\ last.op \in FallibleOps
    /\ last.dir \in Dirs
    /\ HasStorage(Target)
    /\ last.ret
    /\ last.op = "pushBack" => (~last.nullarg /\ last.n <= C4_Free)

\* C19: the latched status always describes the most recent fallible
\* call: every fallible buffer operation overwrites errorCode, so after an
\* operation that fully succeeds lastError() no longer reports an error
\* left by an earlier call.
C19_LatchDescribesLastCall ==
    C19_FullySucceeded => errorCode = "None"

\* C20: every failure is visible in both channels: whenever a buffer
\* operation (overwrite, append, popFront, popAll, removeFront) returns
\* false, lastError() is different from None immediately after the call.
\* Stated for every buffer, with or without storage, that held no bytes
\* behind a null storage pointer when the call was made (such bytes are
\* recorded only by an overwrite that has copied through the null pointer).
C20_FailureLatchesError ==
    ( /\ last.op \in FallibleOps /\ last.dir \in Dirs
      /\ ~(Target.isnull /\ last.used > 0)
      /\ ~last.ret )
        => errorCode # "None"

\* An append returned false after storing a part of its request, with
\* BufferOverflow latched.
C20_Witness ==
    /\ Appended
    /\ ~last.ret
    /\ last.copied >= 1
    /\ last.copied < last.n
    /\ errorCode = "BufferOverflow"

\* C21: write(buffer, size) returns the number of bytes of buffer that this
\* call actually copied into the TX buffer (size on full success, the
\* accepted count otherwise), in every reachable state of TX.
C21_WriteReturnsCopied ==
    (Did("write") /\ last.dir = "tx") => last.val = last.copied

\* C22: read() returns -1 and changes nothing when RX is empty; otherwise
\* it returns the byte at the front of RX (0..255) and removes exactly that
\* byte, and a peek() made just before returns the same value without
\* changing RX content or length.  Stated for an RX buffer that records no
\* bytes behind a null storage pointer.
C22_ReadPeek ==
    [][ /\ (last'.op = "read" /\ (~rx.isnull \/ rx.pos = 0)) =>
              IF rx.pos = 0
              THEN /\ last'.val = -1
                   /\ rx' = rx /\ tx' = tx /\ errorCode' = errorCode
              ELSE /\ last'.val = rx.buf[1]
                   /\ last'.val \in 0..255
                   /\ rx'.pos = rx.pos - 1
                   /\ Content(rx') = SubSeq(Content(rx), 2, rx.pos)
                   /\ last.op = "peek" => last.val = last'.val
        /\ (last'.op = "peek" /\ (~rx.isnull \/ rx.pos = 0)) =>
              /\ last'.val = IF rx.pos = 0 THEN -1 ELSE rx.buf[1]
              /\ rx' = rx /\ tx' = tx /\ errorCode' = errorCode ]_vars

\* A read returned the front byte of two and left the other at the front.
C22_Witness ==
    /\ Did("read")
    /\ last.used = 2
    /\ last.val \in Bytes
    /\ rx.pos = 1
    /\ rx.buf[1] \in Bytes
    /\ rx.buf[1] # last.val

\* Bind and clear, as the call record names them.
BindClearOps == {"setBuffer", "clearBuffer", "flush"}

\* C23: bind (setTxBuffer / setRxBuffer) and clear (clearTxBuffer /
\* clearRxBuffer / flush for TX) leave the affected buffer with
\* used_length = 0 and every storage byte zero, never change errorCode, and
\* are idempotent: the same call applied a second time changes nothing.
C23_BindClearResetIdempotent ==
    [][(last'.op \in BindClearOps /\ last'.dir \in Dirs) =>
          LET post == IF last'.dir = "tx" THEN tx' ELSE rx'
          IN  /\ post.pos = 0
              /\ \A i \in 1..Len(post.buf) : post.buf[i] = NUL
              /\ ~post.isnull => Len(post.buf) = post.size
              /\ last'.op = "setBuffer" =>
                     (post.isnull = last'.nullarg /\ post.size = last'.n)
              /\ errorCode' = errorCode
              /\ ( /\ last.op = last'.op /\ last.dir = last'.dir
                   /\ last.nullarg = last'.nullarg /\ last.n = last'.n )
                 => (tx' = tx /\ rx' = rx)]_vars

\* A clear has emptied and zeroed a buffer that held two bytes, with an
\* error latched before it still latched.
C23_Witness ==
    /\ Did("clearBuffer")
    /\ last.used = 2
    /\ Target.pos = 0
    /\ Target.size = 3
    /\ Target.buf = <<NUL, NUL, NUL>>
    /\ errorCode = "BufferOverflow"

\* C24: the two directions are independent: every TX operation leaves RX
\* storage, RX capacity and RX used_length unchanged, and every RX operation
\* (read included) leaves the TX ones unchanged, given distinct backing
\* storage.
C24_DirectionsIndependent ==
    [][ /\ last'.dir = "tx" => rx' = rx
        /\ last'.dir = "rx" => tx' = tx ]_vars

\* The buffer is inert: its capacity is 0 or no storage is bound.
Inert(b) == b.isnull \/ b.size = 0

\* C25: a buffer with capacity 0 (or no storage bound) is inert: under any
\* sequence of operations its used_length stays 0, appends of at least one
\* byte are rejected with BufferOverflow, and no operation (removeFront(0)
\* and overwrite with size 0 included) reads or writes through the storage
\* pointer.
C25_InertBuffer ==
    /\ \A d \in Dirs : Inert(Buf(d)) => Buf(d).pos = 0
    /\ (last.dir \in Dirs /\ Inert(Target)) =>
           /\ (last.op = "pushBack" /\ ~last.nullarg /\ last.n >= 1) =>
                  (~last.ret /\ errorCode = "BufferOverflow")
           /\ last.op # "setBuffer" => (last.hi = 0 /\ ~last.nullderef)

\* C26: text-to-value conversion mirrors validation: for every type tag and
\* every string s, stringToNumber(s, &v, type) returns true exactly when
\* checkValueType(s, type) returns true (both reject the empty string, a
\* sign-only token and a non-boolean word).
C26_ConversionMirrorsValidation ==
    conv.fn = "stringToNumber" =>
        (conv.ret <=> checkValueType(conv.s, conv.type, conv.bits))

\* The reading of a token the claims about the validators use: the
\* characters behind an optional sign out of signs, which have to be one or
\* more decimal digits.
TokenBody(s, signs) ==
    IF Len(s.chars) >= 1 /\ s.chars[1] \in signs THEN Tail(s.chars) ELSE s.chars

IsToken(s, signs) ==
    /\ ~s.null
    /\ Len(TokenBody(s, signs)) >= 1
    /\ \A i \in 1..Len(TokenBody(s, signs)) : TokenBody(s, signs)[i] \in Digit

TokenNegative(s) == Len(s.chars) >= 1 /\ s.chars[1] = "-"

\* The number a short digit string denotes.
RECURSIVE NatVal(_)
NatVal(ds) ==
    IF Len(ds) = 0 THEN 0
    ELSE NatVal(SubSeq(ds, 1, Len(ds) - 1)) * 10 + DigitVal(ds[Len(ds)])

\* The digit string ds denotes a number <= max, max a number of k digits:
\* all digits before the last k are zeros and the last k denote at most max.
AtMost(ds, max, k) ==
    /\ \A i \in 1..(Len(ds) - k) : ds[i] = "0"
    /\ NatVal(LastK(ds, k)) <= max

\* The value of the token lies in -min .. max (numbers of at most k digits).
TokenWithin(s, signs, min, max, k) ==
    /\ IsToken(s, signs)
    /\ IF TokenNegative(s) THEN AtMost(TokenBody(s, signs), min, k)
                           ELSE AtMost(TokenBody(s, signs), max, k)

\* C27: isUInt8 / isUInt16 accept exactly the unsigned-integer tokens
\* ([+]digits+) whose value is in 0..255 / 0..65535, and isInt8 / isInt16
\* accept exactly the integer tokens ([+|-]digits+) whose value is in
\* -128..127 / -32768..32767, for tokens of any length.
C27_NarrowRangesExact ==
    /\ conv.fn = "isUInt8" =>
           (conv.ret <=> TokenWithin(conv.s, {"+"}, 0, 255, 3))
    /\ conv.fn = "isUInt16" =>
           (conv.ret <=> TokenWithin(conv.s, {"+"}, 0, 65535, 5))
    /\ conv.fn = "isInt8" =>
           (conv.ret <=> TokenWithin(conv.s, {"+", "-"}, 128, 127, 3))
    /\ conv.fn = "isInt16" =>
           (conv.ret <=> TokenWithin(conv.s, {"+", "-"}, 32768, 32767, 5))

\* isInt8 has accepted -128 written with leading zeros.
C27_Witness ==
    /\ conv.fn = "isInt8"
    /\ conv.ret
    /\ conv.s = CStr(<<"-", "0", "0", "1", "2", "8">>)

\* The value of the token, a canonical digit string, is at most max.
TokenAtMost(s, signs, max) == DecLeq(Canon(TokenBody(s, signs)), max)

\* C28: isUInt32, isUInt64 and isInt64 return true only for tokens whose
\* numeric value fits the named width (0..2^32-1, 0..2^64-1,
\* -2^63..2^63-1): a digit string whose value overflows the width is
\* rejected.
C28_WideRangesChecked ==
    /\ (conv.fn = "isUInt32" /\ conv.ret) =>
           (IsToken(conv.s, {"+"}) /\ TokenAtMost(conv.s, {"+"}, UInt32Max))
    /\ (conv.fn = "isUInt64" /\ conv.ret) =>
           (IsToken(conv.s, {"+"}) /\ TokenAtMost(conv.s, {"+"}, UInt64Max))
    /\ (conv.fn = "isInt64" /\ conv.ret) =>
           /\ IsToken(conv.s, {"+", "-"})
           /\ TokenAtMost(conv.s, {"+", "-"},
                          IF TokenNegative(conv.s) THEN Pow2_63 ELSE Int64Max)

\* A number token: an optional sign, then digits and at most one ".", with
\* at least one digit.
IsNumberToken(s) ==
    /\ ~s.null
    /\ LET body == TokenBody(s, {"+", "-"})
           dots == {i \in 1..Len(body) : body[i] = "."}
       IN  /\ \A i \in 1..Len(body) : body[i] \in Digit \cup {"."}
           /\ Cardinality(dots) <= 1
           /\ \E i \in 1..Len(body) : body[i] \in Digit

\* Null, empty, sign-only, or with a blank at either end.
Malformed(s) ==
    \/ s.null
    \/ s.chars \in {<< >>, <<"+">>, <<"-">>}
    \/ IsSpace(s.chars[1])
    \/ IsSpace(s.chars[Len(s.chars)])

\* C29: isInteger accepts exactly an optional single "+" or "-" followed by
\* one or more decimal digits; isUInteger accepts exactly those of them
\* that do not begin with "-"; isNumber accepts exactly an optional sign
\* followed by digits and at most one ".", with at least one digit. Null,
\* empty, sign-only and whitespace-padded strings are rejected by all three.
C29_TokenGrammarsExact ==
    /\ conv.fn = "isInteger" => (conv.ret <=> IsToken(conv.s, {"+", "-"}))
    /\ conv.fn = "isUInteger" =>
           (conv.ret <=> (IsToken(conv.s, {"+", "-"}) /\ ~TokenNegative(conv.s)))
    /\ conv.fn = "isNumber" => (conv.ret <=> IsNumberToken(conv.s))
    /\ (conv.fn \in {"isInteger", "isUInteger", "isNumber"} /\ Malformed(conv.s))
           => ~conv.ret

\* isInteger has rejected a sign-only string.
C29_Witness ==
    /\ conv.fn = "isInteger"
    /\ conv.s = CStr(<<"-">>)
    /\ ~conv.ret

\* Every string that spells w case-insensitively, as a set of C strings.
SpelledAs(s, w) ==
    /\ ~s.null
    /\ Len(s.chars) = Len(w)
    /\ \A i \in 1..Len(w) : s.chars[i] \in {w[i], toup(w[i])}

\* C30: isBoolean returns true exactly for "0", "1" and every upper/lower
\* case spelling of "true" or "false", and false for every other string,
\* including null, the empty string, "2" and "yes".
C30_BooleanExact ==
    conv.fn = "isBoolean" =>
        (conv.ret <=>
            \/ (~conv.s.null /\ conv.s.chars \in {<<"0">>, <<"1">>})
            \/ SpelledAs(conv.s, <<"t", "r", "u", "e">>)
            \/ SpelledAs(conv.s, <<"f", "a", "l", "s", "e">>))

\* isBoolean has accepted a mixed-case spelling.
C30_Witness ==
    /\ conv.fn = "isBoolean"
    /\ conv.s = CStr(<<"t", "R", "u", "E">>)
    /\ conv.ret

\* The integer types and boolean.
RoundTripTypes ==
    {"uint8Type", "uint16Type", "uint32Type", "uint64Type",
     "int8Type", "int16Type", "int32Type", "int64Type", "boolType"}

\* stringToNumber was applied, under the same tag, to the text that
\* dataValueToString printed for a value into a buffer of MaxOut bytes
\* (the longest text, that of -2^63, takes 21).
RoundTripped ==
    /\ conv.fn = "stringToNumber"
    /\ conv.made.type = conv.type
    /\ conv.type \in RoundTripTypes
    /\ conv.made.cap = MaxOut

\* C31: for every integer type and boolean and every representable value v,
\* formatting v with dataValueToString into a large-enough buffer and
\* parsing the result with stringToNumber under the same tag succeeds and
\* yields v.
C31_RoundTrip == RoundTripped => (conv.ret /\ conv.val = conv.made.val)

\* The smallest 64-bit value has gone through the round trip.
C31_Witness ==
    /\ RoundTripped
    /\ conv.type = "int64Type"
    /\ conv.made.val = Negative(Pow2_63)
    /\ conv.val = conv.made.val

\* C32: checkValueType(data, type) returns false for a null data pointer,
\* for every type tag, charType and stringType included.
C32_NullNeverValid ==
    (conv.fn = "checkValueType" /\ conv.s.null) => ~conv.ret

\* The string cs cut at maxSize - 1 characters when maxSize > 0.
CutAt(cs, maxSize) ==
    IF maxSize > 0 /\ Len(cs) > maxSize - 1 THEN SubSeq(cs, 1, maxSize - 1) ELSE cs

\* t is cs without its leading and trailing whitespace: cs is blanks, then
\* t, then blanks, and t neither begins nor ends with a blank.
IsTrimOf(t, cs) ==
    /\ t = << >> \/ (~IsSpace(t[1]) /\ ~IsSpace(t[Len(t)]))
    /\ \E a \in 0..(Len(cs) - Len(t)) :
           /\ SubSeq(cs, a + 1, a + Len(t)) = t
           /\ \A i \in (1..a) \cup ((a + Len(t) + 1)..Len(cs)) : IsSpace(cs[i])

\* trimString was called on a buffer.
Trimmed == conv.fn = "trimString" /\ ~conv.val.before.null

\* C33: trimString leaves in the buffer exactly the input string (cut at
\* maxSize - 1 when maxSize > 0) with all leading and trailing ASCII
\* whitespace removed and the interior bytes unchanged and in order; an
\* all-whitespace input becomes the empty string, and trimming an already
\* trimmed string changes nothing.
C33_TrimExact ==
    Trimmed =>
        /\ ~conv.s.null
        /\ IsTrimOf(conv.s.chars, CutAt(conv.val.before.chars, conv.val.maxSize))
        /\ (\A i \in 1..Len(conv.val.before.chars) :
                IsSpace(conv.val.before.chars[i])) => conv.s.chars = << >>
        /\ trimString(conv.s, 0) = conv.s

\* "  hi there  " has been trimmed to "hi there".
C33_Witness ==
    /\ Trimmed
    /\ conv.val.maxSize = 0
    /\ conv.val.before.chars =
           <<" ", " ", "h", "i", " ", "t", "h", "e", "r", "e", " ", " ">>
    /\ conv.s.chars = <<"h", "i", " ", "t", "h", "e", "r", "e">>

\* The byte at storage[used_length] is NUL whenever used_length < capacity.
Terminated(b) == b.pos < b.size => b.buf[b.pos + 1] = NUL

\* C34: terminator invariant. In every state reachable by any sequence of
\* buffer operations, a bound buffer with capacity >= 1 has
\* storage[used_length] = NUL whenever used_length < capacity.
C34_TerminatorInvariant ==
    \A d \in Dirs : HasStorage(Buf(d)) => Terminated(Buf(d))

\* A buffer holds two bytes in storage of three, and the byte behind
\* them is the terminator.
C34_Witness ==
    /\ Did("pushBack")
    /\ HasStorage(Target)
    /\ Target.size = 3
    /\ Target.pos = 2
    /\ last.used = 1
    /\ Target.buf[3] = NUL

\* A sequence of byte numbers in strictly rising order.
Rising(seq) == \A i, j \in 1..Len(seq) : i < j => seq[i] < seq[j]

\* C35: FIFO order. In any interleaving of appends (each of at most
\* capacity - 1 bytes) and front removals (read, popFront, popAll,
\* removeFront) on one buffer, the bytes delivered form, in order, a
\* subsequence of the bytes appended so far: no byte is delivered twice or
\* out of order, and a byte is skipped only if it was evicted by an
\* overflowing append or dropped by removeFront.  With the bytes numbered
\* as they are appended: the delivered numbers rise, and every number
\* appended so far is either delivered, or still in the buffer (behind all
\* delivered ones, in order), or left the buffer during an append or a
\* removeFront, and is only one of the three.
C35_FifoOrder ==
    LET lost == fifo.evicted \cup fifo.dropped
    IN  /\ Rising(fifo.del \o Content(rx))
        /\ Range(fifo.del) \cup Range(Content(rx)) \cup lost = 1..fifo.app
        /\ Range(fifo.del) \cap lost = {}
        /\ Range(Content(rx)) \cap lost = {}

\* Bytes 2 and 4 have been delivered while byte 1 was evicted by an
\* overflowing append and byte 3 dropped by removeFront.
C35_Witness ==
    /\ fifo.del = <<2, 4>>
    /\ fifo.evicted = {1}
    /\ fifo.dropped = {3}

====
